---------------------------- MODULE Spec2Model ----------------------------
(***************************************************************************)
(* Model of the analytics engine of src/api/ai_services.py: the technical  *)
(* indicators, the LSTM-like forecaster, the risk functions, the portfolio *)
(* optimizer and the signal aggregator.                                    *)
(*                                                                         *)
(* Every entry point is a function call; the state is the last call (its   *)
(* name, its arguments, what it returned or raised, the locals worth       *)
(* looking at, the number of draws it took from the module-level random    *)
(* source) and the LSTMPredictor instance the caller holds.                *)
(*                                                                         *)
(* Numbers are extended rationals [n, d]: d > 0 is a finite value n/d in   *)
(* lowest terms, d = 0 is one of numpy's special values (n = 0 NaN,        *)
(* n = 1 +inf, n = -1 -inf).  round() is taken on the exact value, with    *)
(* ties to even as Python does.  Where a guard of the code compares a      *)
(* float computed with rounding against 0 (calculate_sharpe_ratio) the     *)
(* arithmetic is IEEE-754 round-to-nearest-even at a reduced significand   *)
(* width (FloatBits) and a reduced least exponent (FloatEmin).             *)
(***************************************************************************)
EXTENDS Integers, Sequences, FiniteSets, TLC

VARIABLES
    op,     \* name of the last call ("none" before any call)
    arg,    \* its arguments
    ret,    \* [exc |-> "none", val |-> returned value] or [exc |-> raised, val |-> <<>>]
    loc,    \* locals of the last call that the return value does not carry
    draws,  \* number of values the last call drew from the `random` module
    lstm    \* the LSTMPredictor instance held by the caller

vars == <<op, arg, ret, loc, draws, lstm>>

\* what a call hands back: a returned value, or an exception that propagates
Returned(v) == [exc |-> "none", val |-> v]
Raised(e) == [exc |-> e, val |-> <<>>]

---------------------------------------------------------------------------
(* Bounds of the model. *)

MaxLen == 5          \* longest price / equity / return series of the short-series calls
MaxPeriod == 3       \* largest `period` argument explored
MaxCurve == 4        \* longest equity curve
MaxReturns == 3      \* longest return series
MaxMacdLen == 26     \* longest price series handed to calculate_macd
MaxVarReturns == 11  \* longest return series handed to calculate_var
MaxPositions == 6   \* most positions handed to portfolio_risk_metrics
MaxAssets == 3       \* most assets handed to optimize_allocation
MaxAlloc == 2        \* most entries of an allocation handed to suggest_rebalancing
MaxHistory == 11      \* longest price history given to the forecaster
MaxSignalHistory == 20  \* longest closing-price history given to the signal generator
MaxScoreSteps == 240   \* weighted scores explored reach MaxScoreSteps / 200 in absolute value
MaxPeriodsAhead == 2  \* largest periods_ahead given to predict_price
FloatBits == 3       \* significand width of the reduced IEEE format (binary64 has 53)
FloatEmin == 6       \* its least exponent: the subnormal spacing is 2^-FloatEmin

---------------------------------------------------------------------------
(* Extended rational arithmetic. *)

Abs(x) == IF x < 0 THEN -x ELSE x

Sign(x) == IF x < 0 THEN -1 ELSE IF x > 0 THEN 1 ELSE 0

RECURSIVE GCD(_, _)
GCD(a, b) == IF b = 0 THEN a ELSE GCD(b, a % b)

\* n/d in lowest terms with a positive denominator; d = 0 gives NaN or +-inf.
R(n, d) ==
    IF d = 0 THEN [n |-> Sign(n), d |-> 0]
    ELSE LET g == GCD(Abs(n), Abs(d))
             s == IF d < 0 THEN -1 ELSE 1
         IN  [n |-> s * (n \div g), d |-> s * (d \div g)]

I(n) == [n |-> n, d |-> 1]

NaN == [n |-> 0, d |-> 0]
Inf == [n |-> 1, d |-> 0]

IsNaN(x) == x.d = 0 /\ x.n = 0
IsInf(x) == x.d = 0 /\ x.n # 0
IsFinite(x) == x.d > 0

RNeg(x) == [n |-> -x.n, d |-> x.d]

RAdd(a, b) ==
    IF IsNaN(a) \/ IsNaN(b) THEN NaN
    ELSE IF IsInf(a) /\ IsInf(b) THEN (IF a.n = b.n THEN a ELSE NaN)
    ELSE IF IsInf(a) THEN a
    ELSE IF IsInf(b) THEN b
    ELSE LET g == GCD(a.d, b.d)
         IN  R(a.n * (b.d \div g) + b.n * (a.d \div g), (a.d \div g) * b.d)

RSub(a, b) == RAdd(a, RNeg(b))

RMul(a, b) ==
    IF IsNaN(a) \/ IsNaN(b) THEN NaN
    ELSE IF IsInf(a) \/ IsInf(b)
         THEN [n |-> Sign(a.n) * Sign(b.n), d |-> 0]
    ELSE LET g1 == GCD(Abs(a.n), b.d)
             g2 == GCD(Abs(b.n), a.d)
         IN  IF a.n = 0 \/ b.n = 0 THEN I(0)
             ELSE R((a.n \div g1) * (b.n \div g2), (a.d \div g2) * (b.d \div g1))

\* numpy's float64 division: x/0 is +-inf or NaN (a warning, never an exception).
NpDiv(a, b) ==
    IF IsNaN(a) \/ IsNaN(b) THEN NaN
    ELSE IF IsInf(a) /\ IsInf(b) THEN NaN
    ELSE IF IsInf(b) THEN I(0)
    ELSE IF IsInf(a) THEN [n |-> a.n * (IF b.n < 0 THEN -1 ELSE 1), d |-> 0]
    ELSE IF b.n = 0 THEN [n |-> Sign(a.n), d |-> 0]
    ELSE LET g1 == GCD(Abs(a.n), Abs(b.n))
             g2 == GCD(a.d, b.d)
         IN  R((a.n \div g1) * (b.d \div g2), (a.d \div g2) * (b.n \div g1))

\* IEEE comparisons: every comparison with NaN is false.
RLt(a, b) ==
    /\ ~IsNaN(a) /\ ~IsNaN(b)
    /\ IF IsInf(a) \/ IsInf(b)
       THEN (IF IsInf(a) THEN a.n ELSE 0) < (IF IsInf(b) THEN b.n ELSE 0)
            \/ (IsInf(a) /\ a.n < 0 /\ IsFinite(b))
            \/ (IsInf(b) /\ b.n > 0 /\ IsFinite(a))
       ELSE a.n * b.d < b.n * a.d

REq(a, b) == ~IsNaN(a) /\ ~IsNaN(b) /\ a = b

RLe(a, b) == RLt(a, b) \/ REq(a, b)

RGt(a, b) == RLt(b, a)

RGe(a, b) == RLe(b, a)

RAbs(x) == [n |-> Abs(x.n), d |-> x.d]

\* the integer nearest to n/d (d > 0), ties to the even one
RoundHalfEven(n, d) ==
    LET q == n \div d
        r == n % d
    IN  IF 2 * r < d THEN q
        ELSE IF 2 * r > d THEN q + 1
        ELSE IF q % 2 = 0 THEN q ELSE q + 1

Pow10(k) == IF k = 0 THEN 1 ELSE IF k = 1 THEN 10 ELSE IF k = 2 THEN 100
            ELSE IF k = 3 THEN 1000 ELSE 10000

\* Python's round(x, k); NaN and +-inf round to themselves
Round(x, k) ==
    IF ~IsFinite(x) THEN x
    ELSE R(RoundHalfEven(x.n * Pow10(k), x.d), Pow10(k))

\* floor of the square root of a natural number
RECURSIVE ISqrt(_)
ISqrt(n) ==
    IF n < 2 THEN n
    ELSE LET s == 2 * ISqrt(n \div 4)
         IN  IF (s + 1) * (s + 1) <= n THEN s + 1 ELSE s

\* sign of sg * sqrt(q) - t, decided on integers (sg is 1 or -1, q >= 0)
SignSqrtMinus(sg, q, t) ==
    IF sg = 1
    THEN (IF t < 0 THEN 1 ELSE Sign(q - t * t))
    ELSE (IF t > 0 THEN -1 ELSE - Sign(q - t * t))

\* the integer nearest to (p + sg * sqrt(q)) / m (m > 0), ties to the even one
RoundSqrtInt(p, sg, q, m) ==
    LET est  == (p + sg * ISqrt(q)) \div m
        \* sign of 2 * y - r2, for y the value being rounded
        Cmp(r2) == SignSqrtMinus(sg, 4 * q, r2 * m - 2 * p)
        cand == {r \in (est - 2)..(est + 2) : Cmp(2 * r - 1) >= 0 /\ Cmp(2 * r + 1) <= 0}
    IN  IF Cardinality(cand) = 1 THEN CHOOSE r \in cand : TRUE
        ELSE CHOOSE r \in cand : r % 2 = 0

\* round(a + coef * sqrt(rad) / den, k) for a finite rational a, an integer coef,
\* and the surd sqrt(rad)/den (rad >= 0, den > 0)
RoundSurd(a, coef, rad, den, k) ==
    LET g == GCD(a.d, den)
        m == (a.d \div g) * den
        c == Pow10(k) * Abs(coef) * (m \div den)
    IN  R(RoundSqrtInt(Pow10(k) * a.n * (m \div a.d),
                       IF coef < 0 THEN -1 ELSE 1, c * c * rad, m),
          Pow10(k))

---------------------------------------------------------------------------
(* Sequences as Python lists. *)

\* seq[-k:] : the last k elements (all of them when k = 0 or k >= len)
LastK(seq, k) ==
    IF k <= 0 \/ k >= Len(seq) THEN seq
    ELSE SubSeq(seq, Len(seq) - k + 1, Len(seq))

\* seq[-k] (k >= 1)
FromEnd(seq, k) == seq[Len(seq) - k + 1]

RECURSIVE SumSeq(_)
SumSeq(seq) == IF seq = <<>> THEN 0 ELSE Head(seq) + SumSeq(Tail(seq))

\* np.mean of a list of integers: NaN for the empty list
NpMeanInt(seq) == R(SumSeq(seq), Len(seq))

\* the element of a one-element set: Only({e(x) : x \in {v}}) is e(v), with v
\* computed once
Only(S) == CHOOSE x \in S : TRUE

\* a list given by its elements, as a finite sequence
ListOf(f) == <<>> \o f

\* all sequences over S of length lo..hi
SeqsOf(S, lo, hi) == UNION {[1..n -> S] : n \in lo..hi}

---------------------------------------------------------------------------
(* TechnicalIndicators.calculate_rsi *)

\* mutant of RsiFromAverages: the "1 +" of line 60 dropped
RsiFromAverages_NoOne(avg_gain, avg_loss) ==
    LET rs  == NpDiv(avg_gain, avg_loss)
        rsi == RSub(I(100), NpDiv(I(100), rs))
    IN  Round(rsi, 2)

\* rs -> rsi, as lines 59-61 compute it
RsiFromAverages(avg_gain, avg_loss) ==
    LET rs  == NpDiv(avg_gain, avg_loss)
        rsi == RSub(I(100), NpDiv(I(100), RAdd(I(1), rs)))
    IN  Round(rsi, 2)

\* deltas, gains, losses and their averages (lines 49-54)
rsi_averages(prices, period) ==
    LET deltas == [i \in 1..(Len(prices) - 1) |-> prices[i + 1] - prices[i]]
        tail   == LastK(deltas, period)
        gains  == [i \in 1..Len(tail) |-> IF tail[i] > 0 THEN tail[i] ELSE 0]
        losses == [i \in 1..Len(tail) |-> IF tail[i] < 0 THEN -tail[i] ELSE 0]
    IN  [avg_gain |-> IF gains # <<>> THEN NpMeanInt(gains) ELSE I(0),
         avg_loss |-> IF losses # <<>> THEN NpMeanInt(losses) ELSE I(0)]

calculate_rsi(prices, period) ==
    IF Len(prices) < period + 1 THEN I(50)
    ELSE LET a == rsi_averages(prices, period)
         IN  IF REq(a.avg_loss, I(0)) THEN I(100)
             ELSE RsiFromAverages(a.avg_gain, a.avg_loss)

\* the divisors of the divisions calculate_rsi evaluates on the path it takes
rsi_divisors(prices, period) ==
    IF Len(prices) < period + 1 THEN <<>>
    ELSE LET a == rsi_averages(prices, period)
         IN  IF REq(a.avg_loss, I(0)) THEN <<>>
             ELSE <<a.avg_loss, RAdd(I(1), NpDiv(a.avg_gain, a.avg_loss))>>

---------------------------------------------------------------------------
(* TechnicalIndicators.calculate_bollinger_bands *)

RECURSIVE SumSq(_)
SumSq(seq) == IF seq = <<>> THEN 0 ELSE Head(seq) * Head(seq) + SumSq(Tail(seq))

\* np.std of a non-empty list of integers (population standard deviation), kept as
\* the surd sqrt(rad) / den
NpStdInt(seq) ==
    [rad |-> Len(seq) * SumSq(seq) - SumSeq(seq) * SumSeq(seq), den |-> Len(seq)]

\* mutant of BollingerBands: the lower band computed with the sign of the upper one
BollingerBands_LowerPlus(sma, std) ==
    [upper  |-> RoundSurd(sma, 2, std.rad, std.den, 2),
     middle |-> Round(sma, 2),
     lower  |-> RoundSurd(sma, 4, std.rad, std.den, 2)]

\* the three bands of lines 91-95, from the mean and the standard deviation
BollingerBands(sma, std) ==
    [upper  |-> RoundSurd(sma, 2, std.rad, std.den, 2),
     middle |-> Round(sma, 2),
     lower  |-> RoundSurd(sma, -2, std.rad, std.den, 2)]

calculate_bollinger_bands(prices, period) ==
    IF Len(prices) < period
    THEN LET current_price == IF prices # <<>> THEN prices[Len(prices)] ELSE 0
         IN  [upper  |-> R(current_price * 102, 100),
              middle |-> I(current_price),
              lower  |-> R(current_price * 98, 100)]
    ELSE BollingerBands(NpMeanInt(LastK(prices, period)), NpStdInt(LastK(prices, period)))

---------------------------------------------------------------------------
(* TechnicalIndicators: the moving averages, MACD and the stochastic oscillator *)

\* lines 17-28
calculate_sma(prices, period) ==
    IF Len(prices) < period
    THEN [i \in 1..Len(prices) |-> NpMeanInt(prices)]
    ELSE [i \in 1..Len(prices) |->
            IF i < period THEN NpMeanInt(SubSeq(prices, 1, i))
            ELSE NpMeanInt(SubSeq(prices, i - period + 1, i))]

\* lines 39-40: the list ema extended over the remaining prices
RECURSIVE EmaLoop(_, _, _)
EmaLoop(ema, rest, multiplier) ==
    IF rest = <<>> THEN ema
    ELSE EmaLoop(Append(ema, RAdd(RMul(Head(rest), multiplier),
                                  RMul(ema[Len(ema)], RSub(I(1), multiplier)))),
                 Tail(rest), multiplier)

\* lines 31-41, on a list of float values
calculate_ema(prices, period) ==
    IF Len(prices) = 0 THEN <<>>
    ELSE EmaLoop(<<Head(prices)>>, Tail(prices), R(2, period + 1))

\* a list of integers as a list of float values
Floats(seq) == [i \in 1..Len(seq) |-> I(seq[i])]

\* line 72
MacdLine(ema12, ema26) == ListOf([i \in 1..Len(ema12) |-> RSub(ema12[i], ema26[i])])

\* lines 75-79
MacdValues(macd_line, signal_line) ==
    [macd      |-> Round(FromEnd(macd_line, 1), 4),
     signal    |-> Round(FromEnd(signal_line, 1), 4),
     histogram |-> Round(RSub(FromEnd(macd_line, 1), FromEnd(signal_line, 1)), 4)]

\* lines 64-79
calculate_macd(prices) ==
    IF Len(prices) < 26
    THEN [macd |-> I(0), signal |-> I(0), histogram |-> I(0)]
    ELSE Only({MacdValues(macd_line, calculate_ema(macd_line, 9)) :
               macd_line \in {MacdLine(calculate_ema(Floats(prices), 12),
                                       calculate_ema(Floats(prices), 26))}})

SeqMin(seq) == CHOOSE x \in {seq[i] : i \in 1..Len(seq)} : \A i \in 1..Len(seq) : x <= seq[i]
SeqMax(seq) == CHOOSE x \in {seq[i] : i \in 1..Len(seq)} : \A i \in 1..Len(seq) : x >= seq[i]

\* mutant of calculate_stochastic: the zero-range guard of line 123 dropped
calculate_stochastic_NoRangeGuard(high, low, close, period) ==
    IF Len(close) < period THEN [k |-> I(50), d |-> I(50)]
    ELSE LET lowest_low   == SeqMin(LastK(low, period))
             highest_high == SeqMax(LastK(high, period))
             k == R((FromEnd(close, 1) - lowest_low) * 100, highest_high - lowest_low)
         IN  [k |-> Round(k, 2), d |-> Round(k, 2)]

\* lines 115-128
calculate_stochastic(high, low, close, period) ==
    IF Len(close) < period THEN [k |-> I(50), d |-> I(50)]
    ELSE LET lowest_low   == SeqMin(LastK(low, period))
             highest_high == SeqMax(LastK(high, period))
             k == IF highest_high = lowest_low THEN I(50)
                  ELSE R((FromEnd(close, 1) - lowest_low) * 100, highest_high - lowest_low)
         IN  [k |-> Round(k, 2), d |-> Round(k, 2)]

\* lines 105-109: the true range at position i (i >= 2)
TrueRange(high, low, close, i) ==
    LET a == high[i] - low[i]
        b == Abs(high[i] - close[i - 1])
        c == Abs(low[i] - close[i - 1])
        ab == IF b > a THEN b ELSE a
    IN  IF c > ab THEN c ELSE ab

\* lines 98-112
calculate_atr(high, low, close, period) ==
    IF Len(high) < 2 THEN I(0)
    ELSE Only({Round(NpMeanInt(LastK(tr_list, period)), 4) :
               tr_list \in {ListOf([i \in 1..(Len(high) - 1) |->
                                       TrueRange(high, low, close, i + 1)])}})

---------------------------------------------------------------------------
(* IEEE-754 arithmetic, round to nearest, ties to even, at FloatBits bits. *)

RECURSIVE Pow2(_)
Pow2(k) == IF k <= 0 THEN 1 ELSE 2 * Pow2(k - 1)

\* the largest t >= 0 with 2^t * d <= n (for n >= d > 0)
RECURSIVE Log2Floor(_, _)
Log2Floor(n, d) == IF 2 * d > n THEN 0 ELSE 1 + Log2Floor(n, 2 * d)

\* the float nearest to the finite rational x
Fl(x) ==
    IF ~IsFinite(x) \/ x.n = 0 THEN x
    ELSE LET n  == Abs(x.n) * Pow2(FloatEmin)     \* |x| in units of 2^-FloatEmin
             d  == x.d
             t  == IF n < d THEN 0 ELSE Log2Floor(n, d)
             qz == Pow2(t - FloatBits + 1)         \* spacing of the floats around |x|
         IN  R(Sign(x.n) * qz * RoundHalfEven(n, d * qz), Pow2(FloatEmin))

FAdd(a, b) == Fl(RAdd(a, b))
FSub(a, b) == Fl(RSub(a, b))
FMul(a, b) == Fl(RMul(a, b))
FDiv(a, b) == Fl(NpDiv(a, b))

\* the float nearest to sqrt(x), for a float x >= 0 (its denominator is a power of 2)
FSqrt(x) ==
    IF ~IsFinite(x) \/ x.n = 0 THEN x
    ELSE LET odd == Log2Floor(x.d, 1) % 2 = 1
             n   == IF odd THEN 2 * x.n ELSE x.n       \* x = n / 4^j
             j   == (Log2Floor(x.d, 1) + (IF odd THEN 1 ELSE 0)) \div 2
             \* sqrt(x) in units of 2^-FloatEmin is sqrt(q) / m
             q   == n * Pow2(2 * (FloatEmin - j))
             m   == Pow2(j - FloatEmin)
             r   == ISqrt(q) \div m
             t   == IF r < 1 THEN 0 ELSE Log2Floor(r, 1)
             qz  == Pow2(t - FloatBits + 1)
         IN  Fl(R(qz * RoundSqrtInt(0, 1, q, m * qz), Pow2(FloatEmin)))

\* np.add.reduce over a short list: a left-to-right sum, rounded at every step
RECURSIVE FSumFrom(_, _)
FSumFrom(acc, seq) ==
    IF seq = <<>> THEN acc ELSE FSumFrom(FAdd(acc, Fl(Head(seq))), Tail(seq))

\* np.mean
FMean(seq) == FDiv(FSumFrom(I(0), seq), I(Len(seq)))

\* np.std: sqrt(mean(|x - mean(x)|^2))
FStd(seq) ==
    LET arrmean == FMean(seq)
        x  == [i \in 1..Len(seq) |-> FSub(Fl(seq[i]), arrmean)]
        sq == [i \in 1..Len(seq) |-> FMul(x[i], x[i])]
    IN  FSqrt(FDiv(FSumFrom(I(0), sq), I(Len(seq))))

---------------------------------------------------------------------------
(* RiskAssessment.calculate_max_drawdown *)

\* mutant of DrawdownLoop: the peak is never raised (line 272 dropped)
RECURSIVE DrawdownLoop_StalePeak(_, _, _)
DrawdownLoop_StalePeak(curve, peak, max_dd) ==
    IF curve = <<>> THEN Returned(max_dd)
    ELSE IF peak = 0 THEN Raised("ZeroDivisionError")
    ELSE LET dd == R(peak - Head(curve), peak)
         IN  DrawdownLoop_StalePeak(Tail(curve), peak,
                                    IF RGt(dd, max_dd) THEN dd ELSE max_dd)

\* the loop of lines 270-275 over the values still to visit
RECURSIVE DrawdownLoop(_, _, _)
DrawdownLoop(curve, peak, max_dd) ==
    IF curve = <<>> THEN Returned(max_dd)
    ELSE LET value == Head(curve)
             peak2 == IF value > peak THEN value ELSE peak
         IN  IF peak2 = 0 THEN Raised("ZeroDivisionError")
             ELSE LET dd == R(peak2 - value, peak2)
                  IN  DrawdownLoop(Tail(curve), peak2,
                                   IF RGt(dd, max_dd) THEN dd ELSE max_dd)

calculate_max_drawdown(equity_curve) ==
    IF Len(equity_curve) < 2 THEN Returned(I(0))
    ELSE LET r == DrawdownLoop(equity_curve, equity_curve[1], I(0))
         IN  IF r.exc # "none" THEN r
             ELSE Returned(Round(RMul(r.val, I(100)), 2))

---------------------------------------------------------------------------
(* RiskAssessment.calculate_sharpe_ratio *)

calculate_sharpe_ratio(returns, risk_free_rate) ==
    IF Len(returns) < 2 THEN I(0)
    ELSE LET mean_return == FMean(returns)
             std_return  == FStd(returns)
         IN  IF REq(std_return, I(0)) THEN I(0)
             ELSE LET excess == FSub(mean_return, FDiv(Fl(risk_free_rate), Fl(I(252))))
                      sharpe == FMul(FDiv(excess, std_return), FSqrt(Fl(I(252))))
                  IN  Round(sharpe, 2)

\* the divisors of the divisions of line 258, when that line is reached
sharpe_divisors(returns, risk_free_rate) ==
    IF Len(returns) < 2 \/ REq(FStd(returns), I(0)) THEN <<>>
    ELSE <<Fl(I(252)), FStd(returns)>>

---------------------------------------------------------------------------
(* PortfolioOptimizer.optimize_allocation *)

\* a Python dict is a record; dict.get(key, default)
Get(dict, key, default) == IF key \in DOMAIN dict THEN dict[key] ELSE default

\* values random.uniform(0.2, 0.5) and random.uniform(-0.1, 0.3) may return
UniformVolatility == {R(29, 100), R(49, 100)}
UniformExpectedReturn == {R(-1, 10), R(3, 10)}

\* lines 380-381 for one asset: the supplied values, or the drawn ones
ResolveAsset(asset) ==
    {[symbol |-> Get(asset, "symbol", "None"), volatility |-> v, expected_return |-> e] :
        v \in (IF "volatility" \in DOMAIN asset THEN {asset.volatility}
               ELSE UniformVolatility),
        e \in (IF "expected_return" \in DOMAIN asset THEN {asset.expected_return}
               ELSE UniformExpectedReturn)}

RECURSIVE ResolveAssets(_)
ResolveAssets(assets) ==
    IF assets = <<>> THEN {<<>>}
    ELSE {<<a>> \o rest : a \in ResolveAsset(Head(assets)),
                           rest \in ResolveAssets(Tail(assets))}

\* mutant of RiskMultiplier: an unknown tolerance falls back to conservative
RiskMultiplier_UnknownConservative(risk_tolerance) ==
    IF risk_tolerance = "conservative" THEN R(3, 10)
    ELSE IF risk_tolerance = "medium" THEN R(6, 10)
    ELSE IF risk_tolerance = "aggressive" THEN R(9, 10)
    ELSE R(3, 10)

\* lines 366-372
RiskMultiplier(risk_tolerance) ==
    IF risk_tolerance = "conservative" THEN R(3, 10)
    ELSE IF risk_tolerance = "medium" THEN R(6, 10)
    ELSE IF risk_tolerance = "aggressive" THEN R(9, 10)
    ELSE R(6, 10)

RMax(a, b) == IF RGt(b, a) THEN b ELSE a
RMin(a, b) == IF RLt(b, a) THEN b ELSE a

\* mutant of ClampWeight: the upper clamp of line 387 dropped
ClampWeight_NoUpper(x) == RMax(R(5, 100), x)

\* line 387: max(0.05, min(0.4, x))
ClampWeight(x) == RMax(R(5, 100), RMin(R(4, 10), x))

\* lines 384-387 for one asset whose volatility + 0.01 is not 0
RawWeight(asset, risk_mult) ==
    LET score == NpDiv(asset.expected_return, RAdd(asset.volatility, R(1, 100)))
        adjusted_score == IF RGt(score, I(0)) THEN RMul(score, risk_mult)
                          ELSE RMul(score, RSub(I(1), risk_mult))
    IN  ClampWeight(NpDiv(RAdd(adjusted_score, I(1)), I(4)))

RECURSIVE RSumSeq(_)
RSumSeq(seq) == IF seq = <<>> THEN I(0) ELSE RAdd(Head(seq), RSumSeq(Tail(seq)))

\* line 398
NormalizeWeight(weight, total_weight) == Round(NpDiv(weight, total_weight), 4)

\* the locals the loop of lines 378-394 leaves: the clamped weights and their total
allocation_locals(resolved, risk_tolerance) ==
    Only({[raw_weights |-> raw, total_weight |-> RSumSeq(raw)] :
          raw \in {ListOf([i \in 1..Len(resolved) |->
                              RawWeight(resolved[i], RiskMultiplier(risk_tolerance))])}})

\* lines 388-398: the entries of optimal_weights after normalization
OptimalWeights(resolved, l) ==
    ListOf([i \in 1..Len(resolved) |->
        [symbol |-> resolved[i].symbol,
         weight |-> NormalizeWeight(l.raw_weights[i], l.total_weight),
         expected_return |-> Round(RMul(resolved[i].expected_return, I(100)), 2),
         volatility |-> Round(RMul(resolved[i].volatility, I(100)), 2)]])

\* lines 401-412
AllocationResult(optimal_weights, portfolio_return, portfolio_volatility, risk_tolerance, rebalancing_needed) ==
    IF RAdd(portfolio_volatility, R(1, 100)) = I(0) THEN Raised("ZeroDivisionError")
    ELSE Returned(
      [optimal_allocation |-> optimal_weights,
       expected_portfolio_return |-> Round(portfolio_return, 2),
       expected_portfolio_volatility |-> Round(portfolio_volatility, 2),
       sharpe_ratio |-> Round(NpDiv(portfolio_return,
                                    RAdd(portfolio_volatility, R(1, 100))), 2),
       risk_tolerance |-> risk_tolerance,
       rebalancing_needed |-> rebalancing_needed])

\* mutant of NoAssets: a single asset is refused as well
NoAssets_OrOne(assets) == Len(assets) <= 1

\* line 362: `not assets`
NoAssets(assets) == assets = <<>>

\* optimize_allocation once the absent fields are drawn; rebalancing_needed is
\* the outcome of random.choice([True, False])
optimize_allocation(resolved, risk_tolerance, rebalancing_needed) ==
    IF NoAssets(resolved) THEN Returned([error |-> "No assets provided"])
    ELSE IF \E i \in 1..Len(resolved) : RAdd(resolved[i].volatility, R(1, 100)) = I(0)
    THEN Raised("ZeroDivisionError")
    ELSE Only({
        AllocationResult(
            w,
            RSumSeq([i \in 1..Len(w) |-> RMul(w[i].weight, w[i].expected_return)]),
            RMul(RSumSeq([i \in 1..Len(w) |-> RMul(w[i].weight, w[i].volatility)]),
                 R(7, 10)),
            risk_tolerance, rebalancing_needed) :
        w \in {OptimalWeights(resolved, allocation_locals(resolved, risk_tolerance))}})

\* draws optimize_allocation takes: none on the empty list, else two per asset
\* (the defaults of .get are evaluated whether or not the key is there) and one
\* for random.choice, unless line 384 raises first
allocation_draws(assets) == IF assets = <<>> THEN 0 ELSE 2 * Len(assets) + 1

---------------------------------------------------------------------------
(* PortfolioOptimizer.suggest_rebalancing *)

\* {a['symbol']: a['weight'] for a in allocation}: a later entry replaces an earlier
DictOf(allocation) ==
    [sym \in {allocation[i].symbol : i \in 1..Len(allocation)} |->
        LET last == CHOOSE i \in 1..Len(allocation) :
                       /\ allocation[i].symbol = sym
                       /\ \A j \in (i + 1)..Len(allocation) : allocation[j].symbol # sym
        IN  allocation[last].weight]

\* mutant of WeightDiff: the weights added instead of subtracted
WeightDiff_Added(current_weight, target_weight) == FAdd(target_weight, current_weight)

\* mutant of WeightDiff: half the current weight subtracted
WeightDiff_HalfCurrent(current_weight, target_weight) ==
    FSub(target_weight, FMul(current_weight, R(1, 2)))

\* line 427, a subtraction of floats
WeightDiff(current_weight, target_weight) == FSub(target_weight, current_weight)

\* the literal 0.01 of line 429, as a float
DeadBand == Fl(R(1, 100))

\* the allocation the function receives when the caller writes the weights as
\* decimal literals: each weight is the float nearest to its literal
FloatWeights(allocation) ==
    [i \in 1..Len(allocation) |->
        [symbol |-> allocation[i].symbol, weight |-> Fl(allocation[i].weight)]]

\* the suggestions of lines 424-437, as a set
Suggestions(current_allocation, target_allocation) ==
    LET current_dict == DictOf(current_allocation)
        target_dict  == DictOf(target_allocation)
        all_symbols  == DOMAIN current_dict \cup DOMAIN target_dict
        Diff(sym) == WeightDiff(Get(current_dict, sym, I(0)), Get(target_dict, sym, I(0)))
    IN  {[symbol |-> sym,
          action |-> IF RGt(Diff(sym), I(0)) THEN "buy" ELSE "sell",
          current_weight |-> Round(FMul(Get(current_dict, sym, I(0)), I(100)), 2),
          target_weight |-> Round(FMul(Get(target_dict, sym, I(0)), I(100)), 2),
          change_percentage |-> Round(FMul(Diff(sym), I(100)), 2)] :
         sym \in {x \in all_symbols : RGt(RAbs(Diff(x)), DeadBand)}}

\* every order in which a set may be iterated
RECURSIVE Orders(_)
Orders(S) ==
    IF S = {} THEN {<<>>}
    ELSE UNION {{<<x>> \o rest : rest \in Orders(S \ {x})} : x \in S}

\* the lists suggest_rebalancing may return: the loop follows the iteration
\* order of the set all_symbols, which the language leaves open
suggest_rebalancing(current_allocation, target_allocation) ==
    Orders(Suggestions(current_allocation, target_allocation))

---------------------------------------------------------------------------
(* RiskAssessment.calculate_var *)

\* sorted(): seq with x inserted before the first element greater than x
RECURSIVE Insert(_, _)
Insert(x, seq) ==
    IF seq = <<>> THEN <<x>>
    ELSE IF RLt(x, Head(seq)) THEN <<x>> \o seq
    ELSE <<Head(seq)>> \o Insert(x, Tail(seq))

\* line 242: sorted(returns)
RECURSIVE Sorted(_)
Sorted(seq) == IF seq = <<>> THEN <<>> ELSE Insert(Head(seq), Sorted(Tail(seq)))

\* int(x): truncation towards zero
IntTrunc(x) == IF x.n >= 0 THEN x.n \div x.d ELSE -((-x.n) \div x.d)

\* list indexing seq[index] with a Python index (0-based, negative from the end)
PyIndex(seq, index) ==
    IF index >= Len(seq) \/ index < -Len(seq) THEN Raised("IndexError")
    ELSE Returned(seq[IF index >= 0 THEN index + 1 ELSE Len(seq) + index + 1])

\* lines 237-244
calculate_var(returns, confidence) ==
    IF Len(returns) < 10 THEN Returned(R(5, 100))
    ELSE Only({IF item.exc # "none" THEN item
               ELSE Returned(Round(RMul(RAbs(item.val), I(100)), 2)) :
               item \in {PyIndex(Sorted(returns),
                                 IntTrunc(RMul(RSub(I(1), confidence), I(Len(returns)))))}})

---------------------------------------------------------------------------
(* RiskAssessment.assess_trade_risk *)

\* line 295
RiskScore(position_pct, volatility) ==
    RMin(I(10), RMax(I(1), RAdd(NpDiv(position_pct, I(5)), RMul(volatility, I(20)))))

\* line 301
RiskLevel(risk_score) ==
    IF RLt(risk_score, I(4)) THEN "low"
    ELSE IF RLt(risk_score, I(7)) THEN "medium"
    ELSE "high"

\* lines 280-312 on Python numbers: the division of line 288 raises on 0
assess_trade_risk(entry_price, position_size, portfolio_value, volatility) ==
    IF portfolio_value.n = 0 THEN Raised("ZeroDivisionError")
    ELSE Only({
        Returned(
          [risk_score          |-> Round(RiskScore(position_pct, volatility), 1),
           risk_level          |-> RiskLevel(RiskScore(position_pct, volatility)),
           position_percentage |-> Round(position_pct, 2),
           max_loss_1std       |-> Round(RMul(position_value, volatility), 2),
           max_loss_2std       |-> Round(RMul(RMul(position_value, volatility), I(2)), 2),
           recommended_stop_loss   |->
                Round(RMul(entry_price, RSub(I(1), RMul(volatility, R(3, 2)))), 2),
           recommended_take_profit |->
                Round(RMul(entry_price, RAdd(I(1), RMul(volatility, I(2)))), 2),
           recommendation      |-> IF RGt(RiskScore(position_pct, volatility), I(6))
                                   THEN "Proceed with caution"
                                   ELSE "Trade appears reasonable"]) :
        position_value \in {RMul(entry_price, position_size)},
        position_pct   \in {RMul(NpDiv(RMul(entry_price, position_size), portfolio_value),
                                 I(100))}})

---------------------------------------------------------------------------
(* RiskAssessment.portfolio_risk_metrics *)

\* line 326: sum(p.get('value', 0) for p in positions)
RECURSIVE TotalValue(_)
TotalValue(positions) ==
    IF positions = <<>> THEN 0
    ELSE Get(Head(positions), "value", 0) + TotalValue(Tail(positions))

\* line 329: the largest share of a position, in percent; 0 when the total is
\* not positive
MaxPositionPct(positions, total_value) ==
    IF total_value > 0
    THEN LET shares == {R(Get(positions[i], "value", 0) * 100, total_value) :
                            i \in 1..Len(positions)}
         IN  CHOOSE x \in shares : \A y \in shares : RGe(x, y)
    ELSE I(0)

\* mutant of ConcentrationLevel: the thresholds made inclusive
ConcentrationLevel_Inclusive(max_position_pct) ==
    IF RGe(max_position_pct, I(50)) THEN "high"
    ELSE IF RGe(max_position_pct, I(25)) THEN "medium"
    ELSE "low"

\* line 337
ConcentrationLevel(max_position_pct) ==
    IF RGt(max_position_pct, I(50)) THEN "high"
    ELSE IF RGt(max_position_pct, I(25)) THEN "medium"
    ELSE "low"

\* line 332
Diversification(positions) == IF Len(positions) * 2 < 10 THEN Len(positions) * 2 ELSE 10

\* lines 315-348 (historical_data is never read). rnd holds the four draws of
\* lines 335, 340, 346 and 347. The result is the call's outcome and the
\* number of draws it took.
portfolio_risk_metrics(positions, rnd) ==
    IF positions = <<>>
    THEN [ret |-> Returned([total_risk_score      |-> I(0),
                            diversification_score |-> 0,
                            concentration_risk    |-> "N/A",
                            var_95                |-> I(0),
                            expected_volatility   |-> I(0)]),
          draws |-> 0]
    ELSE Only({
        [ret |-> Returned(
            [total_risk_score        |-> Round(rnd.total_risk_score, 1),
             diversification_score   |-> Diversification(positions),
             concentration_risk      |-> ConcentrationLevel(max_position_pct),
             max_position_percentage |-> Round(max_position_pct, 2),
             var_95                  |->
                Round(RMul(RMul(rnd.portfolio_volatility, R(165, 100)), I(100)), 2),
             expected_volatility     |-> Round(RMul(rnd.portfolio_volatility, I(100)), 2),
             beta                    |-> Round(rnd.beta, 2),
             correlation_to_market   |-> Round(rnd.correlation_to_market, 2)]),
         draws |-> 4] :
        max_position_pct \in {MaxPositionPct(positions, TotalValue(positions))}})

---------------------------------------------------------------------------
(* LSTMPredictor *)

\* line 139: values random.uniform(0.65, 0.85) can return
ModelConfidences == {R(65, 100), R(70, 100), R(85, 100)}

\* line 193: values random.uniform(72, 89) can return
ModelAccuracies == {I(72), I(89)}

\* line 166: values random.gauss(0, sigma) can return when sigma is finite and
\* not 0
NoiseValues == {R(-1, 25), I(0), R(1, 25)}

\* lines 137-140 (last_trained, a wall-clock reading no decision reads, is left out)
LSTMPredictor(symbol, model_confidence) ==
    [alive |-> TRUE, symbol |-> symbol, model_confidence |-> model_confidence]

\* line 157: the volatility, kept as coef * sqrt(rad)
Volatility(historical_prices) ==
    IF Len(historical_prices) >= 20
    THEN LET window == LastK(historical_prices, 20)
             std    == NpStdInt(window)
         IN  [coef |-> NpDiv(I(IF std.rad = 0 THEN 0 ELSE 1), I(SumSeq(window))),
              rad  |-> std.rad]
    ELSE [coef |-> R(1, 50), rad |-> 1]

\* line 166: random.gauss(0, sigma) returns 0 + z * sigma for a normal variate z;
\* draw is the value it returns when sigma is finite and not 0
Gauss(volatility, draw) ==
    IF IsNaN(volatility.coef) THEN NaN
    ELSE IF IsInf(volatility.coef) THEN RMul(draw, volatility.coef)
    ELSE IF volatility.coef.n = 0 \/ volatility.rad = 0 THEN I(0)
    ELSE draw

\* lines 165-179, one iteration. The interval is kept as its half-width ci_width
\* = coef * sqrt(rad) around the unrounded price: lower_bound and upper_bound
\* are round(price -+ ci_width, 2).
PredictionAt(i, current_price, blend, periods_ahead, volatility, draw) ==
    LET trend_factor     == NpDiv(blend, I(periods_ahead))
        noise            == Gauss(volatility, draw)
        predicted_change == RAdd(trend_factor, noise)
        predicted_price  ==
            RMul(I(current_price),
                 RAdd(I(1), RMul(RMul(predicted_change, I(i)), R(1, 10))))
    IN  [period          |-> i,
         predicted_price |-> Round(predicted_price, 2),
         price           |-> predicted_price,
         ci_width        |-> [coef |-> RMul(volatility.coef, I(current_price)),
                              rad  |-> volatility.rad * i]]

\* mutant of InsufficientData: the threshold of line 147 made inclusive
InsufficientData_Inclusive(historical_prices) == Len(historical_prices) <= 10

\* line 147
InsufficientData(historical_prices) == Len(historical_prices) < 10

\* lines 159-196: the forecast from the trend blend and the volatility
Forecast(self, historical_prices, periods_ahead, noise, model_accuracy, blend, volatility) ==
    LET current_price == FromEnd(historical_prices, 1)
        predictions   ==
            [i \in 1..periods_ahead |->
                PredictionAt(i, current_price, blend, periods_ahead, volatility, noise[i])]
        final_prediction == predictions[periods_ahead].predicted_price
        price_change_pct ==
            RMul(NpDiv(RSub(final_prediction, I(current_price)), I(current_price)), I(100))
    IN  [symbol        |-> self.symbol,
         current_price |-> current_price,
         predictions   |-> predictions,
         direction     |-> IF RGt(final_prediction, I(current_price))
                           THEN "bullish" ELSE "bearish",
         predicted_change_percent |-> Round(price_change_pct, 2),
         confidence    |-> Round(RMul(self.model_confidence, I(100)), 1),
         model_accuracy |-> Round(model_accuracy, 1),
         periods_ahead |-> periods_ahead]

\* lines 153-154 and 165: short_trend * 0.6 + medium_trend * 0.4
TrendBlend(historical_prices) ==
    LET current_price == FromEnd(historical_prices, 1)
        short_trend   == R(current_price - FromEnd(historical_prices, 5),
                           FromEnd(historical_prices, 5))
        medium_trend  == R(current_price - FromEnd(historical_prices, 10),
                           FromEnd(historical_prices, 10))
    IN  RAdd(RMul(short_trend, R(6, 10)), RMul(medium_trend, R(4, 10)))

\* lines 142-196. noise holds the draws of line 166, model_accuracy the draw of
\* line 193. The result is the call's outcome and the number of draws it took.
predict_price(self, historical_prices, periods_ahead, noise, model_accuracy) ==
    IF InsufficientData(historical_prices)
    THEN [ret |-> Returned([error |-> "Insufficient data for prediction"]), draws |-> 0]
    ELSE IF FromEnd(historical_prices, 5) = 0 \/ FromEnd(historical_prices, 10) = 0
    THEN [ret |-> Raised("ZeroDivisionError"), draws |-> 0]    \* lines 153, 154
    ELSE IF periods_ahead < 1
    THEN [ret |-> Raised("IndexError"), draws |-> 0]           \* line 182, empty list
    \* with 20 points or more the volatility, and everything computed from it,
    \* is a numpy float64, whose division by 0 does not raise
    ELSE IF FromEnd(historical_prices, 1) = 0 /\ Len(historical_prices) < 20
    THEN [ret |-> Raised("ZeroDivisionError"), draws |-> periods_ahead]  \* line 184
    ELSE Only({[ret |-> Returned(Forecast(self, historical_prices, periods_ahead, noise,
                                          model_accuracy, blend, volatility)),
                draws |-> periods_ahead + 1] :
               blend \in {TrendBlend(historical_prices)},
               volatility \in {Volatility(historical_prices)}})

\* mutant of ClassifyForecast: a confidence of exactly 70 counts as strong
ClassifyForecast_InclusiveConfidence(change_pct, confidence) ==
    IF RGt(change_pct, I(2)) /\ RGe(confidence, I(70)) THEN "strong_buy"
    ELSE IF RGt(change_pct, R(1, 2)) THEN "buy"
    ELSE IF RLt(change_pct, I(-2)) /\ RGe(confidence, I(70)) THEN "strong_sell"
    ELSE IF RLt(change_pct, R(-1, 2)) THEN "sell"
    ELSE "hold"

\* lines 205-222: the first matching branch
ClassifyForecast(change_pct, confidence) ==
    IF RGt(change_pct, I(2)) /\ RGt(confidence, I(70)) THEN "strong_buy"
    ELSE IF RGt(change_pct, R(1, 2)) THEN "buy"
    ELSE IF RLt(change_pct, I(-2)) /\ RGt(confidence, I(70)) THEN "strong_sell"
    ELSE IF RLt(change_pct, R(-1, 2)) THEN "sell"
    ELSE "hold"

\* line 203
FallbackSignal(self, prediction) ==
    [signal |-> "hold", reason |-> prediction.error, confidence |-> I(0)]

\* lines 202-230 (the reason text is kept up to the number formatted into it)
SignalOf(self, prediction) ==
    IF "error" \in DOMAIN prediction
    THEN FallbackSignal(self, prediction)
    ELSE LET change_pct == prediction.predicted_change_percent
             confidence == prediction.confidence
             signal     == ClassifyForecast(change_pct, confidence)
         IN  [signal |-> signal,
              reason |->
                CASE signal = "strong_buy"  -> "Strong bullish prediction"
                  [] signal = "buy"         -> "Moderate bullish prediction"
                  [] signal = "strong_sell" -> "Strong bearish prediction"
                  [] signal = "sell"        -> "Moderate bearish prediction"
                  [] OTHER                  -> "Price expected to remain stable",
              confidence       |-> confidence,
              predicted_change |-> change_pct,
              analysis         |-> prediction]

\* lines 198-230: an exception of predict_price propagates
get_trading_signal(self, historical_prices, noise, model_accuracy) ==
    Only({IF call.ret.exc # "none" THEN call
          ELSE [ret |-> Returned(SignalOf(self, call.ret.val)), draws |-> call.draws] :
          call \in {predict_price(self, historical_prices, 6, noise, model_accuracy)}})

---------------------------------------------------------------------------
(* TradingSignalGenerator *)

\* lines 532-537
score_rsi(rsi) ==
    IF RLt(rsi, I(30)) THEN R(8, 10)
    ELSE IF RLt(rsi, I(40)) THEN R(4, 10)
    ELSE IF RGt(rsi, I(70)) THEN R(-8, 10)
    ELSE IF RGt(rsi, I(60)) THEN R(-4, 10)
    ELSE I(0)

\* lines 539-545
score_macd(macd) ==
    IF RGt(macd.histogram, R(1, 2)) THEN R(8, 10)
    ELSE IF RGt(macd.histogram, I(0)) THEN R(3, 10)
    ELSE IF RLt(macd.histogram, R(-1, 2)) THEN R(-8, 10)
    ELSE IF RLt(macd.histogram, I(0)) THEN R(-3, 10)
    ELSE I(0)

\* lines 547-551
score_bollinger(price, bb) ==
    LET range_pct == IF bb.upper # bb.lower
                     THEN NpDiv(RSub(I(price), bb.lower), RSub(bb.upper, bb.lower))
                     ELSE R(1, 2)
    IN  IF RLt(range_pct, R(2, 10)) THEN R(7, 10)
        ELSE IF RGt(range_pct, R(8, 10)) THEN R(-7, 10)
        ELSE I(0)

\* lines 553-557
score_stochastic(stoch) ==
    IF RLt(stoch.k, I(20)) THEN R(7, 10)
    ELSE IF RGt(stoch.k, I(80)) THEN R(-7, 10)
    ELSE I(0)

\* mutant of score_ma: equal averages count as a golden cross
score_ma_CrossInclusive(price, sma20, sma50) ==
    LET s1 == IF RGt(I(price), sma20) THEN R(3, 10) ELSE R(-3, 10)
        s2 == IF RGt(I(price), sma50) THEN R(3, 10) ELSE R(-3, 10)
        s3 == IF RGe(sma20, sma50) THEN R(4, 10) ELSE R(-4, 10)
    IN  RMax(I(-1), RMin(I(1), RAdd(RAdd(s1, s2), s3)))

\* lines 559-567 (ema12 is a parameter the function never reads)
score_ma(price, sma20, sma50) ==
    LET s1 == IF RGt(I(price), sma20) THEN R(3, 10) ELSE R(-3, 10)
        s2 == IF RGt(I(price), sma50) THEN R(3, 10) ELSE R(-3, 10)
        s3 == IF RGt(sma20, sma50) THEN R(4, 10) ELSE R(-4, 10)
    IN  RMax(I(-1), RMin(I(1), RAdd(RAdd(s1, s2), s3)))

\* mutant of score_lstm_signal: the strong signals count double
score_lstm_signal_Doubled(signal) ==
    CASE signal = "strong_buy"  -> I(2)
      [] signal = "buy"         -> R(1, 2)
      [] signal = "hold"        -> I(0)
      [] signal = "sell"        -> R(-1, 2)
      [] signal = "strong_sell" -> I(-2)
      [] OTHER                  -> I(0)

\* lines 569-577
score_lstm_signal(signal) ==
    CASE signal = "strong_buy"  -> I(1)
      [] signal = "buy"         -> R(1, 2)
      [] signal = "hold"        -> I(0)
      [] signal = "sell"        -> R(-1, 2)
      [] signal = "strong_sell" -> I(-1)
      [] OTHER                  -> I(0)

\* mutant of SignalWeights: the forecast's weight raised to 0.3
SignalWeights_HeavyForecast ==
    [rsi |-> R(15, 100), macd |-> R(2, 10), bollinger |-> R(1, 10),
     stochastic |-> R(1, 10), moving_averages |-> R(2, 10), lstm_prediction |-> R(3, 10)]

\* lines 484-491
SignalWeights ==
    [rsi |-> R(15, 100), macd |-> R(2, 10), bollinger |-> R(1, 10),
     stochastic |-> R(1, 10), moving_averages |-> R(2, 10), lstm_prediction |-> R(25, 100)]

\* lines 459-464 (ema_12 of line 465, which no score or decision reads, is left out)
SignalIndicators(prices, high, low) ==
    [rsi        |-> calculate_rsi(prices, 14),
     macd       |-> calculate_macd(prices),
     bollinger  |-> calculate_bollinger_bands(prices, 20),
     stochastic |-> calculate_stochastic(high, low, prices, 14),
     sma_20     |-> FromEnd(calculate_sma(prices, 20), 1),
     sma_50     |-> IF Len(prices) >= 50 THEN FromEnd(calculate_sma(prices, 50), 1)
                    ELSE FromEnd(calculate_sma(prices, 20), 1)]

\* lines 470-481
SignalScores(prices, ind, lstm_signal) ==
    [rsi             |-> score_rsi(ind.rsi),
     macd            |-> score_macd(ind.macd),
     bollinger       |-> score_bollinger(FromEnd(prices, 1), ind.bollinger),
     stochastic      |-> score_stochastic(ind.stochastic),
     moving_averages |-> score_ma(FromEnd(prices, 1), ind.sma_20, ind.sma_50),
     lstm_prediction |-> score_lstm_signal(lstm_signal.signal)]

\* line 493: sum(scores[k] * weights[k] for k in scores), over the keys still to add
RECURSIVE WeightedSum(_, _, _)
WeightedSum(keys, scores, weights) ==
    IF keys = {} THEN I(0)
    ELSE LET k == CHOOSE x \in keys : TRUE
         IN  RAdd(RMul(scores[k], weights[k]), WeightedSum(keys \ {k}, scores, weights))

\* mutant of SignalClass: the thresholds made inclusive
SignalClass_Inclusive(total_score) ==
    IF RGe(total_score, R(1, 2)) THEN "strong_buy"
    ELSE IF RGe(total_score, R(2, 10)) THEN "buy"
    ELSE IF RLe(total_score, R(-1, 2)) THEN "strong_sell"
    ELSE IF RLe(total_score, R(-2, 10)) THEN "sell"
    ELSE "hold"

\* lines 496-508: the conditions of the if-chain, first match
SignalClass(total_score) ==
    IF RGt(total_score, R(1, 2)) THEN "strong_buy"
    ELSE IF RGt(total_score, R(2, 10)) THEN "buy"
    ELSE IF RLt(total_score, R(-1, 2)) THEN "strong_sell"
    ELSE IF RLt(total_score, R(-2, 10)) THEN "sell"
    ELSE "hold"

\* mutant of ClassConfidence: the hold branch climbs five times as fast
ClassConfidence_SteepHold(signal, total_score) ==
    CASE signal = "strong_buy"  -> RMin(I(95), RAdd(I(70), RMul(total_score, I(25))))
      [] signal = "buy"         -> RMin(I(85), RAdd(I(60), RMul(total_score, I(30))))
      [] signal = "strong_sell" -> RMin(I(95), RAdd(I(70), RMul(RAbs(total_score), I(25))))
      [] signal = "sell"        -> RMin(I(85), RAdd(I(60), RMul(RAbs(total_score), I(30))))
      [] OTHER                  -> RAdd(I(50), RMul(RAbs(total_score), I(100)))

\* lines 498, 501, 504, 507, 510: the confidence of each branch
ClassConfidence(signal, total_score) ==
    CASE signal = "strong_buy"  -> RMin(I(95), RAdd(I(70), RMul(total_score, I(25))))
      [] signal = "buy"         -> RMin(I(85), RAdd(I(60), RMul(total_score, I(30))))
      [] signal = "strong_sell" -> RMin(I(95), RAdd(I(70), RMul(RAbs(total_score), I(25))))
      [] signal = "sell"        -> RMin(I(85), RAdd(I(60), RMul(RAbs(total_score), I(30))))
      [] OTHER                  -> RAdd(I(50), RMul(RAbs(total_score), I(20)))

\* lines 496-510
SignalDecision(total_score) ==
    [signal     |-> SignalClass(total_score),
     confidence |-> ClassConfidence(SignalClass(total_score), total_score)]

\* lines 496-516: the signal, the confidence and the score as the result reports them
ReportedDecision(total_score) ==
    [signal        |-> SignalDecision(total_score).signal,
     confidence    |-> Round(SignalDecision(total_score).confidence, 1),
     overall_score |-> Round(total_score, 3)]

\* lines 493-530 (the timestamp, a wall-clock reading, is left out)
SignalRecord(symbol, prices, ind, lstm_signal, scores, total_score, decision) ==
    [symbol        |-> symbol,
     signal        |-> decision.signal,
     confidence    |-> Round(decision.confidence, 1),
     overall_score |-> Round(total_score, 3),
     indicators    |->
        [rsi |-> [value  |-> ind.rsi,
                  signal |-> IF RLt(ind.rsi, I(30)) THEN "oversold"
                             ELSE IF RGt(ind.rsi, I(70)) THEN "overbought"
                             ELSE "neutral"],
         macd            |-> ind.macd,
         bollinger_bands |-> ind.bollinger,
         stochastic      |-> ind.stochastic,
         sma_20          |-> Round(ind.sma_20, 2),
         sma_50          |-> Round(ind.sma_50, 2)],
     indicator_scores |-> [k \in DOMAIN scores |-> Round(scores[k], 2)],
     current_price |-> FromEnd(prices, 1),
     lstm_analysis |-> lstm_signal]

\* lines 470-530, from the indicators and the outcome of line 480. A key of
\* scores that weights lacks raises KeyError at line 493.
Aggregate(symbol, prices, ind, call, weights) ==
    IF call.ret.exc # "none"
    THEN [ret |-> call.ret, draws |-> 1 + call.draws, loc |-> <<>>]
    ELSE Only({
        IF ~(DOMAIN scores \subseteq DOMAIN weights)
        THEN [ret |-> Raised("KeyError"), draws |-> 1 + call.draws, loc |-> <<>>]
        ELSE Only({
            [ret   |-> Returned(SignalRecord(symbol, prices, ind, call.ret.val, scores,
                                             total_score, SignalDecision(total_score))),
             draws |-> 1 + call.draws,
             loc   |-> [scores |-> scores, weights |-> weights,
                        total_score |-> total_score]] :
            total_score \in {WeightedSum(DOMAIN scores, scores, weights)}}) :
        scores \in {SignalScores(prices, ind, call.ret.val)}})

\* mutant of InsufficientPriceData: the threshold of line 455 made inclusive
InsufficientPriceData_Inclusive(prices) == Len(prices) <= 20

\* line 455
InsufficientPriceData(prices) == Len(prices) < 20

\* lines 448-530. model_confidence is the draw of the forecaster built at line
\* 479, noise and model_accuracy the draws of its forecast. The result is the
\* call's outcome, the number of draws it took and the locals scores, weights
\* and total_score at the return.
generate_comprehensive_signal(symbol, price_data, model_confidence, noise, model_accuracy) ==
    LET prices == Get(price_data, "close", <<>>)
        high   == Get(price_data, "high", prices)
        low    == Get(price_data, "low", prices)
    IN  IF InsufficientPriceData(prices)
        THEN [ret |-> Returned([error |-> "Insufficient price data", signal |-> "hold"]),
              draws |-> 0, loc |-> <<>>]
        ELSE Only({Aggregate(symbol, prices, ind, call, SignalWeights) :
                   ind  \in {SignalIndicators(prices, high, low)},
                   call \in {get_trading_signal(LSTMPredictor(symbol, model_confidence),
                                                prices, noise, model_accuracy)}})

---------------------------------------------------------------------------
(* State machine. *)

NoInstance == [alive |-> FALSE]

Init ==
    /\ op = "none"
    /\ arg = <<>>
    /\ ret = Returned(<<>>)
    /\ loc = <<>>
    /\ draws = 0
    /\ lstm = NoInstance

PriceValues == {8, 10, 12}

\* the caller has taken the result of the last call and is free to call again
Done ==
    /\ op # "none"
    /\ op' = "none"
    /\ arg' = <<>>
    /\ ret' = Returned(<<>>)
    /\ loc' = <<>>
    /\ draws' = 0
    /\ UNCHANGED lstm

Call_rsi ==
    /\ op = "none"
    /\ \E prices \in SeqsOf(PriceValues, 0, MaxLen), period \in 1..MaxPeriod :
           /\ op' = "calculate_rsi"
           /\ arg' = [prices |-> prices, period |-> period]
           /\ ret' = Returned(calculate_rsi(prices, period))
           /\ loc' = [divisors |-> rsi_divisors(prices, period)]
           /\ draws' = 0
           /\ UNCHANGED lstm

Call_sma ==
    /\ op = "none"
    /\ \E prices \in SeqsOf(PriceValues, 0, MaxLen), period \in 1..MaxPeriod :
           /\ op' = "calculate_sma"
           /\ arg' = [prices |-> prices, period |-> period]
           /\ ret' = Returned(calculate_sma(prices, period))
           /\ loc' = <<>>
           /\ draws' = 0
           /\ UNCHANGED lstm

\* mutant of Call_ema: the call takes a draw from the random source and shifts
\* its result by it
Call_ema_Drawing ==
    /\ op = "none"
    /\ \E prices \in SeqsOf(PriceValues, 0, MaxLen), period \in 1..MaxPeriod,
          noise \in NoiseValues :
           /\ op' = "calculate_ema"
           /\ arg' = [prices |-> prices, period |-> period]
           /\ ret' = Returned([i \in 1..Len(prices) |->
                                  RAdd(calculate_ema(Floats(prices), period)[i], noise)])
           /\ loc' = <<>>
           /\ draws' = 1
           /\ UNCHANGED lstm

Call_ema ==
    /\ op = "none"
    /\ \E prices \in SeqsOf(PriceValues, 0, MaxLen), period \in 1..MaxPeriod :
           /\ op' = "calculate_ema"
           /\ arg' = [prices |-> prices, period |-> period]
           /\ ret' = Returned(calculate_ema(Floats(prices), period))
           /\ loc' = <<>>
           /\ draws' = 0
           /\ UNCHANGED lstm

\* price series for calculate_macd: none, or MaxMacdLen - 1 and MaxMacdLen
\* prices at one level, the last one possibly at another
MacdSeries ==
    {<<>>} \cup
    UNION {{[i \in 1..n |-> IF i <= n - j THEN a ELSE b] :
                a \in PriceValues, b \in PriceValues, j \in 0..1} :
           n \in (MaxMacdLen - 1)..MaxMacdLen}

Call_macd ==
    /\ op = "none"
    /\ \E prices \in MacdSeries :
           /\ op' = "calculate_macd"
           /\ arg' = [prices |-> prices]
           /\ ret' = Returned(calculate_macd(prices))
           /\ loc' = <<>>
           /\ draws' = 0
           /\ UNCHANGED lstm

\* the distance of the highs above and of the lows below the closing prices
Spreads == {0, 1}

Call_atr ==
    /\ op = "none"
    /\ \E close \in SeqsOf(PriceValues, 0, MaxLen), spread \in Spreads, period \in 1..MaxPeriod :
        \E high \in {[i \in 1..Len(close) |-> close[i] + spread]},
           low \in {[i \in 1..Len(close) |-> close[i] - spread]} :
           /\ op' = "calculate_atr"
           /\ arg' = [high |-> high, low |-> low, close |-> close, period |-> period]
           /\ ret' = Returned(calculate_atr(high, low, close, period))
           /\ loc' = <<>>
           /\ draws' = 0
           /\ UNCHANGED lstm

Call_stochastic ==
    /\ op = "none"
    /\ \E close \in SeqsOf(PriceValues, 0, MaxLen), spread \in Spreads, period \in 1..MaxPeriod :
        \E high \in {[i \in 1..Len(close) |-> close[i] + spread]},
           low \in {[i \in 1..Len(close) |-> close[i] - spread]} :
           /\ op' = "calculate_stochastic"
           /\ arg' = [high |-> high, low |-> low, close |-> close, period |-> period]
           /\ ret' = Returned(calculate_stochastic(high, low, close, period))
           /\ loc' = <<>>
           /\ draws' = 0
           /\ UNCHANGED lstm

Call_bollinger ==
    /\ op = "none"
    /\ \E prices \in SeqsOf(PriceValues, 0, MaxLen), period \in 1..MaxPeriod :
           /\ op' = "calculate_bollinger_bands"
           /\ arg' = [prices |-> prices, period |-> period]
           /\ ret' = Returned(calculate_bollinger_bands(prices, period))
           /\ loc' = <<>>
           /\ draws' = 0
           /\ UNCHANGED lstm

EquityValues == {-9000, 0, 9000, 9500, 10000, 11000}

Call_max_drawdown ==
    /\ op = "none"
    /\ \E equity_curve \in SeqsOf(EquityValues, 0, MaxCurve) :
           /\ op' = "calculate_max_drawdown"
           /\ arg' = [equity_curve |-> equity_curve]
           /\ ret' = calculate_max_drawdown(equity_curve)
           /\ loc' = <<>>
           /\ draws' = 0
           /\ UNCHANGED lstm

\* daily returns, each exactly representable at FloatBits bits
ReturnValues == {R(-1, 2), R(1, 4), R(3, 4), I(1)}

RiskFreeRates == {R(2, 100)}

Call_sharpe ==
    /\ op = "none"
    /\ \E returns \in SeqsOf(ReturnValues, 0, MaxReturns), risk_free_rate \in RiskFreeRates :
           /\ op' = "calculate_sharpe_ratio"
           /\ arg' = [returns |-> returns, risk_free_rate |-> risk_free_rate]
           /\ ret' = Returned(calculate_sharpe_ratio(returns, risk_free_rate))
           /\ loc' = [divisors |-> sharpe_divisors(returns, risk_free_rate)]
           /\ draws' = 0
           /\ UNCHANGED lstm

\* assets as the caller may pass them: a field may be absent
AssetKinds ==
    {[symbol |-> "BTC", expected_return |-> R(30, 100), volatility |-> R(19, 100)],
     [symbol |-> "ETH", expected_return |-> R(-10, 100), volatility |-> R(39, 100)],
     [symbol |-> "SOL", expected_return |-> R(-50, 100), volatility |-> R(9, 100)],
     [symbol |-> "ADA", expected_return |-> R(5, 100)],
     [symbol |-> "XRP"]}

RiskTolerances == {"conservative", "medium", "aggressive", "reckless"}

Call_optimize_allocation ==
    /\ op = "none"
    /\ \E assets \in SeqsOf(AssetKinds, 0, MaxAssets), risk_tolerance \in RiskTolerances :
         \E resolved \in ResolveAssets(assets), rebalancing_needed \in BOOLEAN :
           /\ op' = "optimize_allocation"
           /\ arg' = [assets |-> assets, risk_tolerance |-> risk_tolerance]
           /\ ret' = optimize_allocation(resolved, risk_tolerance,
                                         IF assets = <<>> THEN FALSE ELSE rebalancing_needed)
           /\ loc' = IF assets = <<>> THEN <<>>
                     ELSE allocation_locals(resolved, risk_tolerance)
           /\ draws' = allocation_draws(assets)
           /\ UNCHANGED lstm

AllocationEntries ==
    {[symbol |-> sym, weight |-> w] :
        sym \in {"BTC", "ETH"},
        w \in {R(10, 100), R(11, 100), R(14, 100), R(15, 100)}}

Call_suggest_rebalancing ==
    /\ op = "none"
    /\ \E current_allocation \in SeqsOf(AllocationEntries, 0, MaxAlloc),
          target_allocation \in SeqsOf(AllocationEntries, 0, MaxAlloc) :
         \E suggestions \in suggest_rebalancing(FloatWeights(current_allocation),
                                                 FloatWeights(target_allocation)) :
           /\ op' = "suggest_rebalancing"
           /\ arg' = [current_allocation |-> current_allocation,
                      target_allocation |-> target_allocation]
           /\ ret' = Returned(suggestions)
           /\ loc' = <<>>
           /\ draws' = 0
           /\ UNCHANGED lstm

PriceLevels == {0, 10, 11}

\* price histories of n points: one level, then another from some point on
StepSeries(n) ==
    {[i \in 1..n |-> IF i <= j THEN a ELSE b] : a \in PriceLevels, b \in PriceLevels, j \in 0..n}

Histories == {<<>>} \cup UNION {StepSeries(n) : n \in 9..MaxHistory}

\* the draws of line 166 over k iterations: one value throughout, then any value
\* in the last iteration
NoiseRuns(k) ==
    {[i \in 1..k |-> IF i < k THEN a ELSE b] : a \in NoiseValues, b \in NoiseValues}

Call_LSTMPredictor ==
    /\ op = "none"
    /\ \E model_confidence \in ModelConfidences :
           /\ op' = "LSTMPredictor"
           /\ arg' = [symbol |-> "BTC"]
           /\ ret' = Returned(<<>>)
           /\ loc' = <<>>
           /\ draws' = 1
           /\ lstm' = LSTMPredictor("BTC", model_confidence)

Call_predict_price ==
    /\ op = "none"
    /\ lstm.alive
    /\ \E historical_prices \in Histories, periods_ahead \in 0..MaxPeriodsAhead,
          model_accuracy \in ModelAccuracies :
        \E noise \in NoiseRuns(periods_ahead) :
            \E call \in {predict_price(lstm, historical_prices, periods_ahead,
                                       noise, model_accuracy)} :
                /\ op' = "predict_price"
                /\ arg' = [historical_prices |-> historical_prices,
                           periods_ahead |-> periods_ahead]
                /\ ret' = call.ret
                /\ loc' = <<>>
                /\ draws' = call.draws
                /\ UNCHANGED lstm

\* mutant of Call_get_trading_signal: the call draws the instance's confidence anew
Call_get_trading_signal_Redraw ==
    /\ op = "none"
    /\ lstm.alive
    /\ \E historical_prices \in Histories, model_accuracy \in ModelAccuracies,
          noise \in NoiseRuns(6), model_confidence \in ModelConfidences :
        \E call \in {get_trading_signal(lstm, historical_prices, noise, model_accuracy)} :
            /\ op' = "get_trading_signal"
            /\ arg' = [historical_prices |-> historical_prices]
            /\ ret' = call.ret
            /\ loc' = <<>>
            /\ draws' = call.draws
            /\ lstm' = LSTMPredictor(lstm.symbol, model_confidence)

Call_get_trading_signal ==
    /\ op = "none"
    /\ lstm.alive
    /\ \E historical_prices \in Histories, model_accuracy \in ModelAccuracies,
          noise \in NoiseRuns(6) :
        \E call \in {get_trading_signal(lstm, historical_prices, noise, model_accuracy)} :
            /\ op' = "get_trading_signal"
            /\ arg' = [historical_prices |-> historical_prices]
            /\ ret' = call.ret
            /\ loc' = <<>>
            /\ draws' = call.draws
            /\ UNCHANGED lstm

NextForecast == Call_LSTMPredictor \/ Call_predict_price \/ Call_get_trading_signal \/ Done

SpecForecast == Init /\ [][NextForecast]_vars

\* price_data dicts: no closing prices at all, closing prices only, or closing
\* prices with highs one above and lows one below them
PriceData ==
    {[volume |-> <<>>]}
    \cup UNION {{[close |-> c],
                 [close |-> c,
                  high  |-> [i \in 1..Len(c) |-> c[i] + 1],
                  low   |-> [i \in 1..Len(c) |-> c[i] - 1]]} :
                c \in UNION {StepSeries(n) : n \in 19..MaxSignalHistory}}

Call_generate_comprehensive_signal ==
    /\ op = "none"
    /\ \E price_data \in PriceData, model_confidence \in ModelConfidences,
          model_accuracy \in ModelAccuracies, noise \in NoiseRuns(6) :
        \E call \in {generate_comprehensive_signal("BTC", price_data, model_confidence,
                                                   noise, model_accuracy)} :
            /\ op' = "generate_comprehensive_signal"
            /\ arg' = [symbol |-> "BTC", price_data |-> price_data]
            /\ ret' = call.ret
            /\ loc' = call.loc
            /\ draws' = call.draws
            /\ UNCHANGED lstm

NextSignal == Call_generate_comprehensive_signal \/ Done

SpecSignal == Init /\ [][NextSignal]_vars

\* weighted scores on a grid of 1/200, the unit the six weighted component
\* scores are multiples of
ScoreGrid == {R(k, 200) : k \in (-MaxScoreSteps)..MaxScoreSteps}

\* lines 496-516 applied to a weighted score
Decide ==
    /\ op = "none"
    /\ \E total_score \in ScoreGrid :
           /\ op' = "signal_decision"
           /\ arg' = [total_score |-> total_score]
           /\ ret' = Returned(ReportedDecision(total_score))
           /\ loc' = [confidence |-> SignalDecision(total_score).confidence]
           /\ draws' = 0
           /\ UNCHANGED lstm

NextDecision == Decide \/ Done

SpecDecision == Init /\ [][NextDecision]_vars

NextAllocation == Call_optimize_allocation \/ Done

SpecAllocation == Init /\ [][NextAllocation]_vars

NextRebalancing == Call_suggest_rebalancing \/ Done

SpecRebalancing == Init /\ [][NextRebalancing]_vars

\* returns as the caller may pass them: none, or 9 and more of them, one level
\* and then another
ReturnLevels == {R(-5, 100), R(-1, 100), I(0), R(3, 100)}

ReturnSeries ==
    {<<>>} \cup
    UNION {{[i \in 1..n |-> IF i <= j THEN a ELSE b] :
                a \in ReturnLevels, b \in ReturnLevels, j \in 0..n} : n \in 9..MaxVarReturns}

VarConfidences == {I(0), R(1, 2), R(95, 100), I(1)}

Call_var ==
    /\ op = "none"
    /\ \E returns \in ReturnSeries, confidence \in VarConfidences :
           /\ op' = "calculate_var"
           /\ arg' = [returns |-> returns, confidence |-> confidence]
           /\ ret' = calculate_var(returns, confidence)
           /\ loc' = <<>>
           /\ draws' = 0
           /\ UNCHANGED lstm

EntryPrices == {I(0), I(100), I(50000)}
PositionSizes == {I(0), R(1, 10), I(2)}
PortfolioValues == {I(0), I(1000), I(100000)}
TradeVolatilities == {I(0), R(2, 100), R(198, 1000), R(35, 100)}

Call_assess_trade_risk ==
    /\ op = "none"
    /\ \E entry_price \in EntryPrices, position_size \in PositionSizes,
          portfolio_value \in PortfolioValues, volatility \in TradeVolatilities :
           /\ op' = "assess_trade_risk"
           /\ arg' = [entry_price |-> entry_price, position_size |-> position_size,
                      portfolio_value |-> portfolio_value, volatility |-> volatility]
           /\ ret' = assess_trade_risk(entry_price, position_size, portfolio_value,
                                       volatility)
           /\ loc' = <<>>
           /\ draws' = 0
           /\ UNCHANGED lstm

\* positions as the caller may pass them: the value may be absent, or negative
PositionKinds ==
    <<[symbol |-> "BTC"],
      [symbol |-> "BTC", value |-> 100],
      [symbol |-> "BTC", value |-> 300],
      [symbol |-> "BTC", value |-> -400]>>

\* position lists up to MaxPositions entries, the kinds in the order above (no
\* result depends on the order of the positions)
PositionLists ==
    UNION {{[i \in 1..n |-> PositionKinds[f[i]]] :
                f \in {g \in [1..n -> 1..Len(PositionKinds)] :
                          \A i \in 1..(n - 1) : g[i] <= g[i + 1]}} : n \in 0..MaxPositions}

\* values the draws of lines 335, 340, 346 and 347 can return
RiskDraws ==
    [portfolio_volatility  : {R(15, 100), R(35, 100)},
     total_risk_score      : {I(4), I(7)},
     beta                  : {R(8, 10), R(13, 10)},
     correlation_to_market : {R(6, 10), R(9, 10)}]

Call_portfolio_risk_metrics ==
    /\ op = "none"
    /\ \E positions \in PositionLists, rnd \in RiskDraws :
        \E call \in {portfolio_risk_metrics(positions, rnd)} :
           /\ op' = "portfolio_risk_metrics"
           /\ arg' = [positions |-> positions]
           /\ ret' = call.ret
           /\ loc' = <<>>
           /\ draws' = call.draws
           /\ UNCHANGED lstm

NextRisk ==
    \/ Call_max_drawdown
    \/ Call_sharpe
    \/ Call_var
    \/ Call_assess_trade_risk
    \/ Call_portfolio_risk_metrics
    \/ Done

SpecRisk == Init /\ [][NextRisk]_vars

\* the indicators between calls that consume the random source
NextInterleaved ==
    \/ Call_sma
    \/ Call_ema
    \/ Call_rsi
    \/ Call_macd
    \/ Call_bollinger
    \/ Call_atr
    \/ Call_stochastic
    \/ Call_LSTMPredictor
    \/ Call_predict_price
    \/ Call_portfolio_risk_metrics
    \/ Call_optimize_allocation
    \/ Done

SpecInterleaved == Init /\ [][NextInterleaved]_vars

NextIndicators ==
    \/ Call_rsi
    \/ Call_bollinger
    \/ Call_sma
    \/ Call_ema
    \/ Call_macd
    \/ Call_atr
    \/ Call_stochastic
    \/ Done

SpecIndicators == Init /\ [][NextIndicators]_vars

---------------------------------------------------------------------------
(* Claims about the indicators (checked under SpecIndicators). *)

IsFlat(seq) == \A i \in 1..Len(seq) : seq[i] = seq[1]

\* no falling step among the last `period` steps of the series
NoLossInWindow(prices, period) ==
    \A i \in 1..(Len(prices) - 1) :
        i > Len(prices) - 1 - period => prices[i + 1] >= prices[i]

\* C3: calculate_rsi of a flat series, of any length, returns 50.
C3_FlatRsiIs50 ==
    (op = "calculate_rsi" /\ arg.prices # <<>> /\ IsFlat(arg.prices))
        => (ret.exc = "none" /\ ret.val = I(50))

\* C4: for every series of every length calculate_rsi returns a value in
\* [0, 100]; with no loss in the window (zero average loss) it returns 100, with
\* fewer than period + 1 points 50, and no division it evaluates has a zero divisor.
C4_RsiInRange ==
    op = "calculate_rsi" =>
        /\ ret.exc = "none"
        /\ RLe(I(0), ret.val) /\ RLe(ret.val, I(100))
        /\ \A i \in 1..Len(loc.divisors) :
              IsFinite(loc.divisors[i]) /\ loc.divisors[i].n # 0
        /\ Len(arg.prices) < arg.period + 1 => ret.val = I(50)
        /\ (Len(arg.prices) >= arg.period + 1
             /\ NoLossInWindow(arg.prices, arg.period)) => ret.val = I(100)

\* a mixed series long enough for the ratio to be computed: 0 < rsi < 100
C4_Witness ==
    /\ op = "calculate_rsi"
    /\ Len(arg.prices) >= arg.period + 1
    /\ Len(loc.divisors) = 2
    /\ RLt(I(0), ret.val) /\ RLt(ret.val, I(100))

\* C8: with at least `period` points, the bands returned by
\* calculate_bollinger_bands satisfy upper >= middle >= lower after rounding.
C8_BandsOrdered ==
    (op = "calculate_bollinger_bands" /\ Len(arg.prices) >= arg.period) =>
        /\ ret.exc = "none"
        /\ RGe(ret.val.upper, ret.val.middle)
        /\ RGe(ret.val.middle, ret.val.lower)

\* a window with spread: the bands are strictly apart
C8_Witness ==
    /\ op = "calculate_bollinger_bands"
    /\ Len(arg.prices) >= arg.period
    /\ ~IsFlat(LastK(arg.prices, arg.period))
    /\ RGt(ret.val.upper, ret.val.middle)
    /\ RGt(ret.val.middle, ret.val.lower)

---------------------------------------------------------------------------
(* Claims about the risk functions (checked under SpecRisk). *)

\* the largest value among the first i of the curve
RunningPeak(curve, i) ==
    CHOOSE m \in {curve[j] : j \in 1..i} : \A j \in 1..i : curve[j] <= m

DrawdownAt(curve, i) ==
    R(RunningPeak(curve, i) - curve[i], RunningPeak(curve, i))

PeaksNonZero(curve) == \A i \in 1..Len(curve) : RunningPeak(curve, i) # 0

MaxDrawdown(curve) ==
    CHOOSE d \in {DrawdownAt(curve, i) : i \in 1..Len(curve)} :
        \A j \in 1..Len(curve) : RLe(DrawdownAt(curve, j), d)

NonDecreasing(seq) == \A i \in 1..(Len(seq) - 1) : seq[i] <= seq[i + 1]

\* C9: calculate_max_drawdown returns, as a percentage rounded to 2 decimals, the
\* maximum over all positions i of (running peak - value) / running peak, wherever
\* that quotient is defined; [10000, 11000, 9000, 9500] gives 18.18 and a
\* non-decreasing curve gives 0.
C9_MaxDrawdown ==
    op = "calculate_max_drawdown" =>
        LET curve == arg.equity_curve
        IN  /\ (Len(curve) >= 1 /\ PeaksNonZero(curve))
                  => ret = Returned(Round(RMul(MaxDrawdown(curve), I(100)), 2))
            /\ curve = <<10000, 11000, 9000, 9500>> => ret = Returned(R(1818, 100))
            /\ (NonDecreasing(curve) /\ PeaksNonZero(curve)) => ret = Returned(I(0))

\* the largest drawdown is met before the end of the curve, after a new peak
C9_Witness ==
    /\ op = "calculate_max_drawdown"
    /\ arg.equity_curve = <<10000, 11000, 9000, 9500>>
    /\ ret = Returned(R(1818, 100))

AllEqual(seq) == \A i \in 1..Len(seq) : seq[i] = seq[1]

\* C10: calculate_sharpe_ratio returns 0 whenever fewer than 2 returns are
\* supplied or all returns are equal (zero standard deviation), and never divides
\* by zero.
C10_SharpeZero ==
    op = "calculate_sharpe_ratio" =>
        /\ ret.exc = "none"
        /\ (Len(arg.returns) < 2 \/ AllEqual(arg.returns)) => ret.val = I(0)
        /\ \A i \in 1..Len(loc.divisors) : loc.divisors[i].n # 0

---------------------------------------------------------------------------
(* Claims about the optimizer (checked under SpecAllocation and, for           *)
(* suggest_rebalancing, under SpecRebalancing).                                *)

\* the last call was optimize_allocation and it returned an allocation
AllocationReturned ==
    /\ op = "optimize_allocation"
    /\ ret.exc = "none"
    /\ "optimal_allocation" \in DOMAIN ret.val

ReturnedWeights ==
    [i \in 1..Len(ret.val.optimal_allocation) |-> ret.val.optimal_allocation[i].weight]

\* C1: for every non-empty asset list and every risk tolerance the weights
\* optimize_allocation returns sum to 1.0 within 1e-6.
C1_WeightsSumToOne ==
    AllocationReturned =>
        RLe(RAbs(RSub(RSumSeq(ReturnedWeights), I(1))), R(1, 1000000))

\* C2 as claimed: every returned (normalized) weight lies within [0.05, 0.40].
C2_NormalizedWithinClamp ==
    AllocationReturned =>
        \A i \in 1..Len(ReturnedWeights) :
            RLe(R(5, 100), ReturnedWeights[i]) /\ RLe(ReturnedWeights[i], R(4, 10))

\* C2 as amended: every weight lies within [0.05, 0.40] before the normalization;
\* the returned weight is that weight divided by the total, rounded to 4 decimals,
\* lies in (0, 1], and exceeds 0.40 for some asset of every list of 1 or 2 assets.
C2_ClampedBeforeNormalization ==
    AllocationReturned =>
        /\ Len(loc.raw_weights) = Len(arg.assets)
        /\ \A i \in 1..Len(ReturnedWeights) :
              /\ RLe(R(5, 100), loc.raw_weights[i]) /\ RLe(loc.raw_weights[i], R(4, 10))
              /\ ReturnedWeights[i]
                    = Round(NpDiv(loc.raw_weights[i], RSumSeq(loc.raw_weights)), 4)
              /\ RLt(I(0), ReturnedWeights[i]) /\ RLe(ReturnedWeights[i], I(1))
        /\ Len(arg.assets) <= 2
              => \E i \in 1..Len(ReturnedWeights) : RGt(ReturnedWeights[i], R(4, 10))

\* two assets, one clamped at 0.40 and one at 0.05: normalization moves both out
C2_Witness ==
    /\ AllocationReturned
    /\ Len(arg.assets) = 2
    /\ loc.raw_weights[1] = R(4, 10) /\ loc.raw_weights[2] = R(5, 100)
    /\ RGt(ReturnedWeights[1], R(4, 10))

\* C5: for every allocation A, suggest_rebalancing(A, A) returns the empty list.
C5_SameAllocationNoSuggestions ==
    (op = "suggest_rebalancing" /\ arg.current_allocation = arg.target_allocation)
        => ret = Returned(<<>>)

\* an allocation of two entries compared with itself
C5_Witness ==
    /\ op = "suggest_rebalancing"
    /\ arg.current_allocation = arg.target_allocation
    /\ Len(arg.current_allocation) = 2
    /\ arg.current_allocation[1].symbol # arg.current_allocation[2].symbol
    /\ ret = Returned(<<>>)

---------------------------------------------------------------------------
(* Claims about LSTMPredictor. *)

\* the last call returned the insufficient-data error result
ErrorResult == ret.exc = "none" /\ "error" \in DOMAIN ret.val

\* the last call returned a forecast record
ForecastResult == ret.exc = "none" /\ "predictions" \in DOMAIN ret.val

AllPositive(seq) == \A i \in 1..Len(seq) : seq[i] > 0

\* C6: predict_price returns the insufficient-data error result (a returned
\* value, not an exception) if and only if fewer than 10 prices are supplied:
\* 9 points give the error, 10 positive points (and a horizon of at least one
\* period) give a forecast; get_trading_signal returns the fallback signal
\* 'hold' with confidence 0 exactly on the error result.
C6_InsufficientDataBoundary ==
    /\ op = "predict_price" =>
          /\ ErrorResult <=> Len(arg.historical_prices) < 10
          /\ ErrorResult => ret.val = [error |-> "Insufficient data for prediction"]
          /\ (/\ Len(arg.historical_prices) = 10
              /\ AllPositive(arg.historical_prices)
              /\ arg.periods_ahead >= 1)
             => (ForecastResult /\ Len(ret.val.predictions) = arg.periods_ahead)
    /\ op = "get_trading_signal" =>
          /\ Len(arg.historical_prices) < 10 =>
                ret = Returned([signal |-> "hold",
                                reason |-> "Insufficient data for prediction",
                                confidence |-> I(0)])
          /\ (Len(arg.historical_prices) >= 10 /\ ret.exc = "none") =>
                (/\ ret.val.analysis.periods_ahead = 6
                 /\ RGt(ret.val.confidence, I(0)))

C6_Witness ==
    /\ op = "get_trading_signal"
    /\ Len(arg.historical_prices) = 9
    /\ AllPositive(arg.historical_prices)
    /\ ret.val.signal = "hold"
    /\ ret.val.confidence = I(0)
    /\ draws = 0

---------------------------------------------------------------------------
(* Claims about TradingSignalGenerator. *)

\* the last call was generate_comprehensive_signal and returned an aggregate signal
AggregateReturned ==
    /\ op = "generate_comprehensive_signal"
    /\ ret.exc = "none"
    /\ "overall_score" \in DOMAIN ret.val

ScoreKeys == {"rsi", "macd", "bollinger", "stochastic", "moving_averages", "lstm_prediction"}

\* C7: the fixed weights of generate_comprehensive_signal (rsi, macd, bollinger,
\* stochastic, moving_averages, lstm_prediction) sum to exactly 1, and the weight
\* keys are the score keys, so that every score is weighted exactly once (the
\* weighted sum never misses a key).
C7_WeightsCoverScores ==
    /\ op = "generate_comprehensive_signal" => ret.exc # "KeyError"
    /\ AggregateReturned =>
          /\ DOMAIN loc.weights = ScoreKeys
          /\ DOMAIN loc.scores = DOMAIN loc.weights
          /\ WeightedSum(DOMAIN loc.weights, [k \in DOMAIN loc.weights |-> I(1)],
                         loc.weights) = I(1)
          /\ ret.val.overall_score =
                Round(WeightedSum(DOMAIN loc.weights, loc.scores, loc.weights), 3)

C7_Witness ==
    /\ AggregateReturned
    /\ \A k \in ScoreKeys \ {"macd"} : loc.scores[k] # I(0)
    /\ ret.val.signal = "sell"

---------------------------------------------------------------------------
(* Further claims about the optimizer (SpecAllocation). *)

\* the no-assets error result, and nothing else
NoAssetsError == ret = Returned([error |-> "No assets provided"])

\* C11: optimize_allocation on an empty asset list returns the no-assets error
\* result for every risk tolerance, with no allocation and no portfolio metrics
\* (and no random draw); a non-empty list never produces that error.
C11_EmptyAssetsError ==
    op = "optimize_allocation" =>
        /\ NoAssetsError <=> arg.assets = <<>>
        /\ arg.assets = <<>> => (DOMAIN ret.val = {"error"} /\ draws = 0)
        /\ arg.assets # <<>> => (ret.exc = "none" => "error" \notin DOMAIN ret.val)

C11_Witness ==
    /\ op = "optimize_allocation"
    /\ arg.assets = <<>>
    /\ arg.risk_tolerance = "aggressive"
    /\ NoAssetsError

---------------------------------------------------------------------------
(* Claims about the decision of generate_comprehensive_signal (SpecDecision). *)

\* C12: the confidence of an aggregated signal is monotonically non-decreasing
\* in the absolute weighted score across all five classes: whenever
\* |s1| >= |s2| the confidence for s1 is >= the confidence for s2, before and
\* after the rounding to one decimal, across the boundaries at 0.2 and 0.5 and
\* their negative mirrors.
C12_ConfidenceMonotone ==
    op = "signal_decision" =>
        \A s2 \in ScoreGrid :
            RLe(RAbs(s2), RAbs(arg.total_score)) =>
                /\ RLe(SignalDecision(s2).confidence, loc.confidence)
                /\ RLe(ReportedDecision(s2).confidence, ret.val.confidence)

C12_Witness ==
    /\ op = "signal_decision"
    /\ arg.total_score = R(-21, 100)
    /\ ret.val.signal = "sell"
    /\ RGt(ret.val.confidence, ReportedDecision(R(2, 10)).confidence)

---------------------------------------------------------------------------
(* Further claims about LSTMPredictor (SpecForecast). *)

\* the last call was a forecaster method and returned a result other than the
\* insufficient-data error or the fallback made from it
NonErrorForecast ==
    /\ op \in {"predict_price", "get_trading_signal"}
    /\ ret.exc = "none"
    /\ "error" \notin DOMAIN ret.val
    /\ "reason" \in DOMAIN ret.val => ret.val.reason # "Insufficient data for prediction"

\* every non-error result reports the confidence of the instance, within [0, 100]
ConfidenceOfInstance ==
    NonErrorForecast =>
        /\ ret.val.confidence = Round(RMul(lstm.model_confidence, I(100)), 1)
        /\ RGe(ret.val.confidence, I(0)) /\ RLe(ret.val.confidence, I(100))
        /\ "analysis" \in DOMAIN ret.val => ret.val.analysis.confidence = ret.val.confidence

\* only the constructor sets the instance
OnlyConstructorSetsInstance == (op' # "LSTMPredictor") => (lstm' = lstm)

\* C13: the model confidence is drawn once, at construction, and no call
\* modifies it: across any sequence of predict_price and get_trading_signal
\* calls on one instance every non-error result reports the same confidence
\* (that of the instance), and it lies in [0, 100].
C13_ConfidenceFixed == [][OnlyConstructorSetsInstance]_vars /\ []ConfidenceOfInstance

C13_Witness ==
    /\ op = "get_trading_signal"
    /\ NonErrorForecast
    /\ lstm.model_confidence = R(85, 100)
    /\ ret.val.confidence = I(85)
    /\ draws = 7

---------------------------------------------------------------------------
(* Further claims about RiskAssessment (SpecRisk). *)

RiskFunctions ==
    {"calculate_var", "calculate_sharpe_ratio", "calculate_max_drawdown",
     "assess_trade_risk", "portfolio_risk_metrics"}

\* the running peak of an equity curve is 0 at some point of the loop of
\* lines 269-275
RECURSIVE PeakReachesZero(_, _)
PeakReachesZero(curve, peak) ==
    IF curve = <<>> THEN FALSE
    ELSE LET p == IF Head(curve) > peak THEN Head(curve) ELSE peak
         IN  p = 0 \/ PeakReachesZero(Tail(curve), p)

\* the last call was given one of the degenerate inputs: an empty list, an
\* equity curve whose running peak is 0, portfolio_value = 0, or positions
\* whose total value is 0
DegenerateRiskInput ==
    \/ op \in {"calculate_var", "calculate_sharpe_ratio"} /\ arg.returns = <<>>
    \/ /\ op = "calculate_max_drawdown"
       /\ \/ arg.equity_curve = <<>>
          \/ PeakReachesZero(arg.equity_curve, arg.equity_curve[1])
    \/ op = "assess_trade_risk" /\ arg.portfolio_value = I(0)
    \/ op = "portfolio_risk_metrics" /\ TotalValue(arg.positions) = 0

\* C14: every risk function (calculate_var, calculate_sharpe_ratio,
\* calculate_max_drawdown, assess_trade_risk, portfolio_risk_metrics) returns
\* a result without raising on empty or degenerate input, including an empty
\* list, an equity curve whose running peak is 0, portfolio_value = 0, and
\* positions whose total value is 0.
C14_RiskNeverRaises == DegenerateRiskInput => ret.exc = "none"

---------------------------------------------------------------------------
(* Claims about malformed price series (SpecForecast). *)

\* the last call was a forecaster method given at least 10 prices (and, for
\* predict_price, at least one period to forecast)
ForecastOnSeries ==
    /\ op \in {"predict_price", "get_trading_signal"}
    /\ Len(arg.historical_prices) >= 10
    /\ op = "predict_price" => arg.periods_ahead >= 1

\* C15: predict_price and get_trading_signal never raise on a malformed but
\* non-empty numeric price series of at least 10 points: for prices that are
\* negative or zero (including a zero at the last position, at 5th-from-last
\* or at 10th-from-last) they still return a numeric result record rather
\* than crash.
C15_ForecastNeverRaises == ForecastOnSeries => (ret.exc = "none" /\ NonErrorForecast)

---------------------------------------------------------------------------
(* Claims about the input check of generate_comprehensive_signal (SpecSignal). *)

\* the closing prices of the last call's price_data
ClosingPrices == Get(arg.price_data, "close", <<>>)

\* the last call returned the insufficient-data error record
InsufficientPriceDataResult ==
    /\ ret.exc = "none"
    /\ ret.val = [error |-> "Insufficient price data", signal |-> "hold"]

\* C16: generate_comprehensive_signal fails with the insufficient-data error
\* result, carrying signal 'hold', if and only if fewer than 20 closing prices
\* are supplied; in that case no indicator is computed and no forecaster is
\* constructed (no random draw is consumed).
C16_InsufficientPriceData ==
    op = "generate_comprehensive_signal" =>
        /\ InsufficientPriceDataResult <=> Len(ClosingPrices) < 20
        /\ ret.exc = "none" /\ "error" \in DOMAIN ret.val => InsufficientPriceDataResult
        /\ Len(ClosingPrices) < 20 => draws = 0 /\ loc = <<>>
        /\ Len(ClosingPrices) >= 20 /\ ret.exc = "none" => draws = 8 /\ loc # <<>>

C16_Witness ==
    /\ op = "generate_comprehensive_signal"
    /\ Len(ClosingPrices) = 19
    /\ "high" \in DOMAIN arg.price_data
    /\ InsufficientPriceDataResult
    /\ draws = 0

---------------------------------------------------------------------------
(* Claims about the moving averages (SpecIndicators). *)

\* the average of the points from the start through i when fewer than period
\* points are available up to i, otherwise of the period points ending at i
WindowMean(prices, period, i) ==
    IF i < period THEN NpMeanInt(SubSeq(prices, 1, i))
    ELSE NpMeanInt(SubSeq(prices, i - period + 1, i))

\* C17: calculate_sma returns a sequence of the same length as its input in
\* which, for each index i, the value is the average of all points from the
\* start through i when fewer than `period` points are available up to i, and
\* otherwise the average of exactly the trailing `period` points ending at i;
\* this holds also when the whole input is shorter than `period`.
C17_SmaWindows ==
    op = "calculate_sma" =>
        /\ ret.exc = "none"
        /\ Len(ret.val) = Len(arg.prices)
        /\ \A i \in 1..Len(arg.prices) : ret.val[i] = WindowMean(arg.prices, arg.period, i)

---------------------------------------------------------------------------
(* Determinism of the indicators (SpecInterleaved). *)

IndicatorFunctions ==
    {"calculate_sma", "calculate_ema", "calculate_rsi", "calculate_macd",
     "calculate_bollinger_bands", "calculate_atr", "calculate_stochastic"}

\* what the indicator of the last call gives on the arguments of the last call
IndicatorOutput ==
    CASE op = "calculate_sma" -> calculate_sma(arg.prices, arg.period)
      [] op = "calculate_ema" -> calculate_ema(Floats(arg.prices), arg.period)
      [] op = "calculate_rsi" -> calculate_rsi(arg.prices, arg.period)
      [] op = "calculate_macd" -> calculate_macd(arg.prices)
      [] op = "calculate_bollinger_bands" -> calculate_bollinger_bands(arg.prices, arg.period)
      [] op = "calculate_atr" -> calculate_atr(arg.high, arg.low, arg.close, arg.period)
      [] op = "calculate_stochastic" ->
            calculate_stochastic(arg.high, arg.low, arg.close, arg.period)

\* the result of an indicator call is determined by its arguments alone,
\* whatever was called before it
OutputFromInputAlone == op \in IndicatorFunctions => ret = Returned(IndicatorOutput)

\* an indicator call takes no draw and leaves the forecaster instance alone
IndicatorStep == op' \in IndicatorFunctions => (draws' = 0 /\ lstm' = lstm)

---------------------------------------------------------------------------
(* Claims about the classification of get_trading_signal (SpecForecast). *)

\* the last call was get_trading_signal and classified a forecast
ClassifiedForecast == op = "get_trading_signal" /\ NonErrorForecast

\* C19: get_trading_signal classifies a non-error forecast by first match in
\* this order: percent change > 2 and confidence > 70 gives strong_buy; else
\* percent change > 0.5 gives buy; else percent change < -2 and confidence > 70
\* gives strong_sell; else percent change < -0.5 gives sell; else hold.
\* Consequently a change beyond +/-2% with confidence <= 70 is classified
\* buy/sell, never strong_*, and a change in [-0.5, 0.5] is always hold.
C19_ForecastClasses ==
    ClassifiedForecast =>
        LET change_pct == ret.val.predicted_change
            confidence == ret.val.confidence
            signal     == ret.val.signal
            strong_buy  == RGt(change_pct, I(2)) /\ RGt(confidence, I(70))
            buy         == ~strong_buy /\ RGt(change_pct, R(1, 2))
            strong_sell == /\ ~strong_buy /\ ~buy
                           /\ RLt(change_pct, I(-2)) /\ RGt(confidence, I(70))
            sell        == /\ ~strong_buy /\ ~buy /\ ~strong_sell
                           /\ RLt(change_pct, R(-1, 2))
        IN  /\ change_pct = ret.val.analysis.predicted_change_percent
            /\ confidence = ret.val.analysis.confidence
            /\ signal = "strong_buy" <=> strong_buy
            /\ signal = "buy" <=> buy
            /\ signal = "strong_sell" <=> strong_sell
            /\ signal = "sell" <=> sell
            /\ signal = "hold" <=> ~(strong_buy \/ buy \/ strong_sell \/ sell)
            /\ RGt(change_pct, I(2)) /\ RLe(confidence, I(70)) => signal = "buy"
            /\ RLt(change_pct, I(-2)) /\ RLe(confidence, I(70)) => signal = "sell"
            /\ RGe(change_pct, R(-1, 2)) /\ RLe(change_pct, R(1, 2)) => signal = "hold"

C19_Witness ==
    /\ ClassifiedForecast
    /\ RGt(ret.val.predicted_change, I(2))
    /\ ret.val.confidence = I(70)
    /\ ret.val.signal = "buy"

---------------------------------------------------------------------------
(* Claims about the classes of generate_comprehensive_signal (SpecDecision). *)

\* C20: generate_comprehensive_signal maps the weighted score s to exactly one
\* class: s > 0.5 strong_buy, 0.2 < s <= 0.5 buy, s < -0.5 strong_sell,
\* -0.5 <= s < -0.2 sell, otherwise hold (so s = 0.5, 0.2, -0.2, -0.5 fall in
\* buy, hold, hold, sell respectively), with confidence capped at 95 for
\* strong_buy/strong_sell and at 85 for buy/sell.
C20_ScoreClasses ==
    op = "signal_decision" =>
        LET s      == arg.total_score
            signal == ret.val.signal
        IN  /\ signal = "strong_buy" <=> RGt(s, R(1, 2))
            /\ signal = "buy" <=> RGt(s, R(2, 10)) /\ RLe(s, R(1, 2))
            /\ signal = "strong_sell" <=> RLt(s, R(-1, 2))
            /\ signal = "sell" <=> RGe(s, R(-1, 2)) /\ RLt(s, R(-2, 10))
            /\ signal = "hold" <=> RGe(s, R(-2, 10)) /\ RLe(s, R(2, 10))
            /\ s = R(1, 2) => signal = "buy"
            /\ s = R(2, 10) => signal = "hold"
            /\ s = R(-2, 10) => signal = "hold"
            /\ s = R(-1, 2) => signal = "sell"
            /\ signal \in {"strong_buy", "strong_sell"} =>
                   /\ loc.confidence = RMin(I(95), RAdd(I(70), RMul(RAbs(s), I(25))))
                   /\ RLe(ret.val.confidence, I(95))
            /\ signal \in {"buy", "sell"} =>
                   /\ loc.confidence = RMin(I(85), RAdd(I(60), RMul(RAbs(s), I(30))))
                   /\ RLe(ret.val.confidence, I(85))

C20_Witness ==
    /\ op = "signal_decision"
    /\ arg.total_score = R(-1, 2)
    /\ ret.val.signal = "sell"
    /\ ret.val.confidence = I(75)

\* a score beyond 1 in absolute value: the cap of 95 binds
C20_CapReached ==
    /\ op = "signal_decision"
    /\ arg.total_score = R(-6, 5)
    /\ ret.val.signal = "strong_sell"
    /\ ret.val.confidence = I(95)

---------------------------------------------------------------------------
(* Further claims about suggest_rebalancing (SpecRebalancing). *)

\* the symbols suggested by the last call
SuggestedSymbols == {ret.val[i].symbol : i \in 1..Len(ret.val)}

\* C21: suggest_rebalancing emits a suggestion for a symbol of the union of
\* both allocations if and only if |target weight - current weight| > 0.01,
\* treating a symbol absent from one allocation as weight 0 there; the action
\* is 'buy' exactly when target > current and 'sell' exactly when
\* target < current, and a difference of exactly 0.01 produces no suggestion.
C21_DeadBand ==
    op = "suggest_rebalancing" =>
        LET current_dict == DictOf(arg.current_allocation)
            target_dict  == DictOf(arg.target_allocation)
            all_symbols  == DOMAIN current_dict \cup DOMAIN target_dict
            current(sym) == Get(current_dict, sym, I(0))
            target(sym)  == Get(target_dict, sym, I(0))
        IN  /\ SuggestedSymbols \subseteq all_symbols
            /\ \A sym \in all_symbols :
                   /\ sym \in SuggestedSymbols <=>
                          RGt(RAbs(RSub(target(sym), current(sym))), R(1, 100))
                   /\ RSub(target(sym), current(sym)) = R(1, 100) =>
                          sym \notin SuggestedSymbols
            /\ \A i \in 1..Len(ret.val) :
                   /\ ret.val[i].action = "buy" <=>
                          RGt(target(ret.val[i].symbol), current(ret.val[i].symbol))
                   /\ ret.val[i].action = "sell" <=>
                          RLt(target(ret.val[i].symbol), current(ret.val[i].symbol))

---------------------------------------------------------------------------
(* Further claims about assess_trade_risk (SpecRisk). *)

\* clamp(x, lo, hi)
Clamp(x, lo, hi) == IF RLt(x, lo) THEN lo ELSE IF RGt(x, hi) THEN hi ELSE x

\* C22: for every assess_trade_risk call with portfolio_value > 0, the risk
\* score is clamp(position_pct/5 + volatility*20, 1, 10) and so lies in
\* [1, 10], and the reported risk_level agrees with the reported risk_score
\* under the thresholds at 4 and 7: 'low' iff reported score < 4, 'medium' iff
\* 4 <= reported score < 7, 'high' iff reported score >= 7.
C22_RiskScoreAndLevel ==
    (op = "assess_trade_risk" /\ RGt(arg.portfolio_value, I(0))) =>
        LET position_pct ==
                RMul(NpDiv(RMul(arg.entry_price, arg.position_size), arg.portfolio_value),
                     I(100))
            risk_score ==
                Clamp(RAdd(NpDiv(position_pct, I(5)), RMul(arg.volatility, I(20))),
                      I(1), I(10))
            reported == ret.val.risk_score
        IN  /\ ret.exc = "none"
            /\ reported = Round(risk_score, 1)
            /\ RGe(reported, I(1)) /\ RLe(reported, I(10))
            /\ ret.val.risk_level = "low" <=> RLt(reported, I(4))
            /\ ret.val.risk_level = "medium" <=> RGe(reported, I(4)) /\ RLt(reported, I(7))
            /\ ret.val.risk_level = "high" <=> RGe(reported, I(7))

---------------------------------------------------------------------------
(* Claims about portfolio_risk_metrics (SpecRisk). *)

\* the value of a position, 0 when it carries none
ValueOf(position) == IF "value" \in DOMAIN position THEN position.value ELSE 0

\* C23: portfolio_risk_metrics returns the all-zero / 'N/A' record for empty
\* positions; for non-empty positions diversification_score =
\* min(10, 2 * number of positions) and concentration_risk is 'high' when the
\* largest single-position share of total value is > 50%, 'medium' when it is
\* > 25% and <= 50%, and 'low' otherwise (including when total value is not
\* positive).
C23_PortfolioMetrics ==
    op = "portfolio_risk_metrics" =>
        LET positions == arg.positions
            n     == Len(positions)
            total == TotalValue(positions)
            \* some position holds more than num/den of the total (total > 0)
            ShareAbove(num, den) ==
                \E i \in 1..n : ValueOf(positions[i]) * den > num * total
        IN  /\ ret.exc = "none"
            /\ n = 0 =>
                   /\ ret.val = [total_risk_score |-> I(0), diversification_score |-> 0,
                                 concentration_risk |-> "N/A", var_95 |-> I(0),
                                 expected_volatility |-> I(0)]
                   /\ draws = 0
            /\ n > 0 =>
                   /\ ret.val.diversification_score = (IF 2 * n < 10 THEN 2 * n ELSE 10)
                   /\ ret.val.concentration_risk = "high" <=> (total > 0 /\ ShareAbove(1, 2))
                   /\ ret.val.concentration_risk = "medium" <=>
                          (total > 0 /\ ShareAbove(1, 4) /\ ~ShareAbove(1, 2))
                   /\ ret.val.concentration_risk = "low" <=> (total <= 0 \/ ~ShareAbove(1, 4))

\* four positions of equal value: the largest share is exactly 25%
C23_Witness ==
    /\ op = "portfolio_risk_metrics"
    /\ Len(arg.positions) = 4
    /\ \A i \in 1..4 : ValueOf(arg.positions[i]) = 100
    /\ ret.val.concentration_risk = "low"
    /\ ret.val.diversification_score = 8

---------------------------------------------------------------------------
(* Claims about calculate_var (SpecRisk). *)

\* a loss of 5% in the units of line 244, which reports |return| * 100
FivePercent == Round(RMul(RAbs(R(-5, 100)), I(100)), 2)

\* C24: calculate_var returns the default 5% value when fewer than 10 returns
\* are supplied; otherwise, for N >= 10 returns and confidence in (0, 1], it
\* returns |sorted_ascending[floor((1 - confidence) * N)]| * 100, the index is
\* always within bounds of the sorted list, and the result is >= 0 in the
\* same percent units as the default.
C24_VarValue ==
    (op = "calculate_var" /\ RGt(arg.confidence, I(0)) /\ RLe(arg.confidence, I(1))) =>
        LET N     == Len(arg.returns)
            x     == RMul(RSub(I(1), arg.confidence), I(N))
            index == x.n \div x.d
        IN  /\ ret.exc = "none"
            /\ RGe(ret.val, I(0))
            /\ N < 10 => ret.val = FivePercent
            /\ N >= 10 =>
                   /\ index \in 0..(N - 1)
                   /\ ret.val = Round(RMul(RAbs(Sorted(arg.returns)[index + 1]), I(100)), 2)

---------------------------------------------------------------------------
(* Claims about the risk tolerance of optimize_allocation (SpecAllocation). *)

\* the last call was given a non-empty asset list whose assets all supply
\* expected_return and volatility
AllocationOfSuppliedAssets ==
    /\ op = "optimize_allocation"
    /\ arg.assets # <<>>
    /\ \A i \in 1..Len(arg.assets) :
           {"expected_return", "volatility"} \subseteq DOMAIN arg.assets[i]

\* the multiplier of a risk tolerance
ToleranceMultiplier(risk_tolerance) ==
    CASE risk_tolerance = "conservative" -> R(3, 10)
      [] risk_tolerance = "aggressive"   -> R(9, 10)
      [] OTHER                           -> R(6, 10)

\* the weight of an asset before normalisation, under a multiplier
WeightUnder(asset, multiplier) ==
    LET score == NpDiv(asset.expected_return, RAdd(asset.volatility, R(1, 100)))
        adjusted == IF RGt(score, I(0)) THEN RMul(score, multiplier)
                    ELSE RMul(score, RSub(I(1), multiplier))
        weight == NpDiv(RAdd(adjusted, I(1)), I(4))
    IN  IF RLt(weight, R(5, 100)) THEN R(5, 100)
        ELSE IF RGt(weight, R(4, 10)) THEN R(4, 10) ELSE weight

\* C25: optimize_allocation with an unknown risk tolerance string produces
\* the same weights and portfolio return/volatility as with 'medium'
\* (multiplier 0.6) for every asset list whose assets all supply
\* expected_return and volatility; the multiplier is 0.3 for 'conservative'
\* and 0.9 for 'aggressive', applied as score*multiplier when score > 0 and
\* score*(1 - multiplier) otherwise.
C25_UnknownToleranceIsMedium ==
    AllocationOfSuppliedAssets =>
        /\ ret.exc = "none"
        /\ \A i \in 1..Len(arg.assets) :
               loc.raw_weights[i] =
                   WeightUnder(arg.assets[i], ToleranceMultiplier(arg.risk_tolerance))
        /\ arg.risk_tolerance \notin {"conservative", "medium", "aggressive"} =>
               \E medium \in {optimize_allocation(arg.assets, "medium",
                                                   ret.val.rebalancing_needed)} :
                   /\ medium.exc = "none"
                   /\ ret.val.optimal_allocation = medium.val.optimal_allocation
                   /\ ret.val.expected_portfolio_return =
                          medium.val.expected_portfolio_return
                   /\ ret.val.expected_portfolio_volatility =
                          medium.val.expected_portfolio_volatility

C25_Witness ==
    /\ AllocationOfSuppliedAssets
    /\ arg.risk_tolerance = "reckless"
    /\ Len(arg.assets) = 2
    /\ arg.assets[1].symbol = "BTC" /\ arg.assets[2].symbol = "ETH"
    /\ ret.val.optimal_allocation #
           optimize_allocation(arg.assets, "conservative", FALSE).val.optimal_allocation

---------------------------------------------------------------------------
(* Claims about calculate_stochastic (SpecIndicators). *)

\* the positions of the trailing `period` points of a series of n points
TrailingWindow(n, period) == {i \in 1..n : i > n - period}

\* the values of a series at a set of positions
ValuesAt(seq, positions) == {seq[i] : i \in positions}

\* %K and %D of the last call are as the formula gives them over the trailing
\* period: 50 on a zero range, otherwise the position of the last close in the
\* range, in percent (to two decimals)
StochasticByFormula ==
    LET n      == Len(arg.close)
        window == TrailingWindow(n, arg.period)
        highs  == ValuesAt(arg.high, window)
        lows   == ValuesAt(arg.low, window)
    IN  /\ ret.exc = "none"
        /\ ret.val.d = ret.val.k
        /\ \A highest_high \in highs, lowest_low \in lows :
               ((\A h \in highs : h <= highest_high) /\ (\A l \in lows : l >= lowest_low)) =>
                   ret.val.k =
                       IF highest_high = lowest_low THEN I(50)
                       ELSE Round(R((arg.close[n] - lowest_low) * 100,
                                    highest_high - lowest_low), 2)
        /\ window = {} => ret.val.k = I(50)

\* C26 (as stated): calculate_stochastic, given high/low/close sequences of
\* equal length, returns %K = 50 when highest high equals lowest low over the
\* trailing period (no division by zero), otherwise
\* %K = (close - lowest_low)/(highest_high - lowest_low)*100; and in every
\* result %D equals %K.
C26_StochasticFormula == op = "calculate_stochastic" => StochasticByFormula

\* C26 (amended): the same for sequences of at least `period` points; on
\* fewer points the result is %K = %D = 50 whatever the range.
C26_StochasticFormulaOnFullWindow ==
    op = "calculate_stochastic" =>
        /\ Len(arg.close) >= arg.period => StochasticByFormula
        /\ Len(arg.close) < arg.period =>
               ret = Returned([k |-> I(50), d |-> I(50)])

\* a flat window after a move: the range of the trailing period is zero
C26_Witness ==
    /\ op = "calculate_stochastic"
    /\ arg.close = <<8, 12, 12, 12>>
    /\ arg.high = arg.close /\ arg.low = arg.close
    /\ arg.period = 3
    /\ ret.val = [k |-> I(50), d |-> I(50)]

---------------------------------------------------------------------------
(* Claims about the forecast points (SpecForecast). *)

\* the half-widths coef * sqrt(rad) of two intervals are in order
WidthLe(a, b) ==
    /\ RGe(a.coef, I(0)) /\ RGe(b.coef, I(0))
    /\ RLe(RMul(RMul(a.coef, a.coef), I(a.rad)), RMul(RMul(b.coef, b.coef), I(b.rad)))

\* the predictions of the last call are periods_ahead points with offsets
\* 1, 2, ..., each inside its interval, the intervals widening with the offset
\* (the bounds are the price -+ the half-width, rounded to 2 decimals, so a
\* non-negative half-width puts the price between them)
ForecastPoints ==
    /\ ret.exc = "none"
    /\ "predictions" \in DOMAIN ret.val
    /\ Len(ret.val.predictions) = arg.periods_ahead
    /\ \A i \in 1..Len(ret.val.predictions) :
           /\ ret.val.predictions[i].period = i
           /\ RGe(ret.val.predictions[i].ci_width.coef, I(0))
           /\ i > 1 => WidthLe(ret.val.predictions[i - 1].ci_width,
                               ret.val.predictions[i].ci_width)

\* C27: for every series of at least 10 positive prices and every
\* periods_ahead >= 0, predict_price returns a forecast record whose
\* predictions list has exactly periods_ahead entries with period offsets
\* 1, 2, ..., periods_ahead in increasing order, each with
\* lower_bound <= predicted_price <= upper_bound, and with the half-width
\* (upper - predicted) non-decreasing in the period offset.
C27_ForecastPoints ==
    (/\ op = "predict_price"
     /\ Len(arg.historical_prices) >= 10
     /\ AllPositive(arg.historical_prices)
     /\ arg.periods_ahead >= 0) => ForecastPoints

---------------------------------------------------------------------------
(* Claims about the component scores (SpecSignal). *)

\* C28: in generate_comprehensive_signal, whenever fewer than 50 prices are
\* supplied (20 <= length < 50) SMA50 is substituted by SMA20, so the
\* SMA20 > SMA50 cross term is always the -0.4 branch and the moving-average
\* score can only be 0.2 (price > SMA20) or -1.0 (price <= SMA20); it is never
\* +1.0, +0.4, -0.2 or -0.4 in that range.
C28_MovingAverageScore ==
    (AggregateReturned /\ Len(ClosingPrices) >= 20 /\ Len(ClosingPrices) < 50) =>
        LET price == ClosingPrices[Len(ClosingPrices)]
            sma20 == NpMeanInt(SubSeq(ClosingPrices, Len(ClosingPrices) - 19,
                                      Len(ClosingPrices)))
            score == loc.scores.moving_averages
        IN  /\ ret.val.indicators.sma_50 = ret.val.indicators.sma_20
            /\ ret.val.indicators.sma_20 = Round(sma20, 2)
            /\ score \in {R(2, 10), I(-1)}
            /\ score = R(2, 10) <=> RGt(I(price), sma20)
            /\ score = I(-1) <=> RLe(I(price), sma20)
            /\ ret.val.indicator_scores.moving_averages = Round(score, 2)

\* a flat series: the price equals SMA20, the score is -1.0
C28_Witness ==
    /\ AggregateReturned
    /\ Len(ClosingPrices) = 20
    /\ \A i \in 1..20 : ClosingPrices[i] = 10
    /\ loc.scores.moving_averages = I(-1)

\* the largest absolute value each scorer returns (lines 532-577)
LargestScore ==
    [rsi |-> R(8, 10), macd |-> R(8, 10), bollinger |-> R(7, 10),
     stochastic |-> R(7, 10), moving_averages |-> I(1), lstm_prediction |-> I(1)]

\* C29: for every input with at least 20 prices, each of the six component
\* scores of generate_comprehensive_signal lies in [-1, 1], the weighted total
\* score lies in [-0.87, 0.87], and the reported confidence lies in [50, 95];
\* the forecast component is never the insufficient-data fallback, so the
\* embedded forecast signal never carries confidence 0.
C29_ScoreRanges ==
    (AggregateReturned /\ Len(ClosingPrices) >= 20) =>
        /\ DOMAIN loc.scores = ScoreKeys
        /\ \A k \in ScoreKeys :
               /\ RLe(RAbs(loc.scores[k]), LargestScore[k])
               /\ RLe(LargestScore[k], I(1))
        /\ WeightedSum(ScoreKeys, LargestScore, loc.weights) = R(87, 100)
        /\ RLe(RAbs(loc.total_score), R(87, 100))
        /\ RGe(ret.val.confidence, I(50)) /\ RLe(ret.val.confidence, I(95))
        /\ "reason" \in DOMAIN ret.val.lstm_analysis
        /\ ret.val.lstm_analysis.reason # "Insufficient data for prediction"
        /\ "analysis" \in DOMAIN ret.val.lstm_analysis
        /\ RGe(ret.val.lstm_analysis.confidence, I(65))

\* a strong forecast inside an aggregated signal
C29_Witness ==
    /\ AggregateReturned
    /\ Len(ClosingPrices) = 20
    /\ ret.val.lstm_analysis.signal \in {"strong_buy", "strong_sell"}
    /\ RAbs(loc.scores.lstm_prediction) = I(1)
    /\ ret.val.lstm_analysis.confidence = I(85)

---------------------------------------------------------------------------
(* Algebraic claims about suggest_rebalancing (SpecRebalancing). *)

\* the symbols of an allocation are unique
UniqueSymbols(allocation) ==
    \A i, j \in 1..Len(allocation) :
        allocation[i].symbol = allocation[j].symbol => i = j

\* the suggestions of the call with the two allocations of the last call
\* exchanged
ReverseSuggestions ==
    Suggestions(FloatWeights(arg.target_allocation), FloatWeights(arg.current_allocation))

\* C30: suggest_rebalancing is antisymmetric and duplicate-free: for all
\* allocations A and B with unique symbols, each symbol appears at most once
\* in suggest_rebalancing(A, B), the set of suggested symbols of
\* suggest_rebalancing(A, B) equals that of suggest_rebalancing(B, A), and for
\* each such symbol the actions are opposite (buy vs sell) with
\* change_percentage negated.
C30_Antisymmetric ==
    (/\ op = "suggest_rebalancing"
     /\ UniqueSymbols(arg.current_allocation)
     /\ UniqueSymbols(arg.target_allocation)) =>
        /\ \A i, j \in 1..Len(ret.val) : ret.val[i].symbol = ret.val[j].symbol => i = j
        /\ SuggestedSymbols = {r.symbol : r \in ReverseSuggestions}
        /\ \A i \in 1..Len(ret.val) : \A r \in ReverseSuggestions :
               r.symbol = ret.val[i].symbol =>
                   /\ {r.action, ret.val[i].action} = {"buy", "sell"}
                   /\ r.change_percentage = RNeg(ret.val[i].change_percentage)
                   /\ r.current_weight = ret.val[i].target_weight
                   /\ r.target_weight = ret.val[i].current_weight

\* two symbols moved in opposite directions
C30_Witness ==
    /\ op = "suggest_rebalancing"
    /\ UniqueSymbols(arg.current_allocation)
    /\ UniqueSymbols(arg.target_allocation)
    /\ Len(ret.val) = 2
    /\ ret.val[1].action = "buy"
    /\ ret.val[2].action = "sell"

===========================================================================
